---- MODULE Spec2Model ----
(***************************************************************************)
(* Model of gateway-sp-comms/src/single_sp.rs: the reactor task `Inner`    *)
(* (run, initial_discovery, discover, handle_command,                      *)
(* handle_incoming_message, rpc_call, rpc_call_one_attempt), the facade    *)
(* `SingleSp` that talks to it over the command channel, and the paginated *)
(* TLV collection loop.                                                    *)
(*                                                                         *)
(* Durations and instants are whole microseconds.  `clock` is the time     *)
(* elapsed since the current rpc_call was entered: the code only ever      *)
(* observes differences of instants inside one call (the Interval deadline *)
(* and the busy sleep), so the epoch is moved to the call's entry.         *)
(*                                                                         *)
(* Specifications:                                                         *)
(*   Spec          the reactor from construction, with one facade caller;  *)
(*   SpecRpc       one rpc_call taken from the command channel;            *)
(*   SpecIdWrap    the main loop with message_id one short of u32::MAX;    *)
(*   SpecAttempts  the entry of rpc_call over a range of configurations;   *)
(*   SpecTlv       get_paginated_tlv_data, each rpc taken as a whole;      *)
(*   SpecWrite     AttachedSerialConsoleSend::write, and SpecWriteFair,    *)
(*                 the same where every RPC issued returns;                *)
(*   SpecConsole   the main loop with the console attach and detach        *)
(*                 commands;                                               *)
(*   SpecForward   the forwarding of SerialConsole messages to an attached *)
(*                 channel;                                                *)
(*   SpecCommands  the reactor from its start with commands of every kind; *)
(*   SpecOperating the main loop after discovery, with several callers;    *)
(*   SpecFacade    the caboose readers and set_ipcc_key_lookup_value over  *)
(*                 the reactor from its start.                             *)
(***************************************************************************)
EXTENDS Integers, Sequences, FiniteSets, TLC

VARIABLES
    cfg,                              \* Inner.max_attempts_per_rpc, Inner.per_attempt_timeout
    pc,                               \* where the reactor task is suspended
    message_id,                       \* Inner.message_id (u32, as two 16-bit halves)
    most_recent_host_phase2_request,  \* Inner.most_recent_host_phase2_request
    serial_console_tx,                \* Inner.serial_console_tx
    serial_console_connection_key,    \* Inner.serial_console_connection_key
    sp_addr_tx,                       \* the watch value published by Inner.sp_addr_tx
    sp_addr,                          \* run()'s local sp_addr
    cmds_rx,                          \* the command channel (mpsc, capacity 8)
    rpc,                              \* locals of the rpc_call in progress / last returned
    clock,                            \* time since rpc_call was entered
    caller,                           \* the requester of the oldest unanswered command
    calls,                            \* number of rpc_call entries so far
    obs,                              \* what an observer of the socket has seen of this call
    tlv,                              \* locals of get_paginated_tlv_data
    wr                                \* the caller's cursor: the locals of write or set_ipcc

vars == <<cfg, pc, message_id, most_recent_host_phase2_request, serial_console_tx,
          serial_console_connection_key, sp_addr_tx, sp_addr, cmds_rx, rpc, clock,
          caller, calls, obs, tlv, wr>>

(***************************************************************************)
(* Bounds of the model.                                                    *)
(***************************************************************************)
MaxCalls == 2
MaxBusy == 2
MaxOob == 2
MaxPending == 2

(***************************************************************************)
(* Program constants.                                                      *)
(***************************************************************************)
SP_RESET_TIME_ALLOWED == 30000000
INITIAL_INTERVAL == 20000
MAX_INTERVAL == 1000000
CMDS_CHANNEL_DEPTH == 8
TLV_RPC_TOTAL_ITEMS_DOS_LIMIT == 1024

Min(a, b) == IF a < b THEN a ELSE b
Max(a, b) == IF a > b THEN a ELSE b

\* Duration::as_millis: whole milliseconds, the sub-millisecond part dropped.
as_millis(d) == d \div 1000

(***************************************************************************)
(* u32 arithmetic on message ids.  An id is <<high half, low half>>, each  *)
(* half in 0 .. 2^16 - 1.                                                  *)
(***************************************************************************)
Half == 2 ^ 16
U32Zero == <<0, 0>>
U32Max == <<Half - 1, Half - 1>>
U32Succ(x) == IF x[2] = Half - 1 THEN <<x[1] + 1, 0>> ELSE <<x[1], x[2] + 1>>
U32Less(a, b) == a[1] < b[1] \/ (a[1] = b[1] /\ a[2] < b[2])

\* `self.message_id += 1`: at u32::MAX the addition overflows; a build with
\* overflow checks panics, a build without them wraps to 0.
IncrementOutcomes(id) ==
    IF id = U32Max THEN {[id |-> id, panic |-> TRUE], [id |-> U32Zero, panic |-> FALSE]}
    ELSE {[id |-> U32Succ(id), panic |-> FALSE]}

(***************************************************************************)
(* Values.                                                                 *)
(***************************************************************************)
Kind(tag, component) == [tag |-> tag, component |-> component]
Discover == Kind("Discover", "")

Resp(tag, arg) == [tag |-> tag, arg |-> arg]
NoResp == Resp("", "")
Busy == Resp("Error", "Busy")

CommErr(tag, arg, n) == [tag |-> tag, arg |-> arg, n |-> n]
NoErr == CommErr("", "", 0)

Ok(peer, resp) == [peer |-> peer, resp |-> resp, ok |-> TRUE, err |-> NoErr]
Err(e) == [peer |-> "", resp |-> NoResp, ok |-> FALSE, err |-> e]

Components == {"SP_ITSELF", "ROT"}
Peers == {"addr1", "addr2"}
Hashes == {"h1", "h2"}

\* The SpResponse variants the SP is taken to answer with.
SpResponses ==
    { Busy,
      Resp("Error", "ResetComponentTriggerWithoutPrepare"),
      Resp("Error", "RequestUnsupportedForSp"),
      Resp("SpState", "v2"),
      Resp("ResetComponentTriggerAck", ""),
      Resp("Discover", "") }

\* What socket_handle.recv() can return besides an SpResponse.
OobMessages ==
    {[type |-> "HostPhase2Request", h |-> h] : h \in Hashes}
        \cup {[type |-> "SerialConsole", h |-> ""]}

\* Operations of the facade: the public methods state() and
\* reset_component_trigger(component), and the crate's rpc() with ResetTrigger.
Op(name, component) == [component |-> component, name |-> name]
FacadeOps ==
    {Op("state", "")} \cup {Op("reset_component_trigger", c) : c \in Components}
CrateOps == FacadeOps \cup {Op("rpc_reset_trigger", "")}

\* get_caboose_value(key), read_component_caboose(component, slot, key) and
\* set_ipcc_key_lookup_value(key, data).
CabooseOps ==
    {Op("get_caboose_value", ""), Op("read_component_caboose", "SP_ITSELF")}

\* The request each facade operation sends.
RequestOf(op) ==
    CASE op.name = "state" -> Kind("SpState", "")
      [] op.name = "rpc_reset_trigger" -> Kind("ResetTrigger", "")
      [] op.name = "reset_component_trigger" ->
            Kind("ResetComponentTrigger", op.component)
      [] op.name = "get_caboose_value" -> Kind("ReadCaboose", "")
      [] op.name = "read_component_caboose" ->
            Kind("ReadComponentCaboose", op.component)
      [] op.name = "set_ipcc_key_lookup_value" -> Kind("SetIpccKeyLookupValue", "")

Configs ==
    { [max_attempts_per_rpc |-> 1, per_attempt_timeout |-> 12000000],
      [max_attempts_per_rpc |-> 2, per_attempt_timeout |-> 10000000] }


(***************************************************************************)
(* The facade's reading of an RpcResponse: SingleSp::state,                *)
(* reset_component_trigger, rpc.                                           *)
(***************************************************************************)
FOk(val) == [ok |-> TRUE, err |-> NoErr, val |-> val]
FErr(e) == [ok |-> FALSE, err |-> e, val |-> ""]

NoCaller == [pc |-> "idle", op |-> Op("", "")]

\* SpResponseExt::expect_*: the payload of the expected variant, or
\* BadResponseType.
Expect(response, tag) ==
    IF response.tag = tag THEN FOk(response.arg)
    ELSE FErr(CommErr("BadResponseType", response.tag, 0))

\* Variant: ResetComponentTriggerWithoutPrepare is success for any component.
reset_component_trigger_any_component(component, response) ==
    IF response.ok
    THEN IF component = "SP_ITSELF"
         THEN FErr(CommErr("BadResponseType", response.resp.tag, 0))
         ELSE Expect(response.resp, "ResetComponentTriggerAck")
    ELSE IF response.err = CommErr("SpError", "ResetComponentTriggerWithoutPrepare", 0)
         THEN FOk("")
         ELSE FErr(response.err)

\* Variant: the ack is success for SP_ITSELF too.
reset_component_trigger_ack_is_success(component, response) ==
    IF response.ok
    THEN Expect(response.resp, "ResetComponentTriggerAck")
    ELSE IF /\ response.err = CommErr("SpError", "ResetComponentTriggerWithoutPrepare", 0)
            /\ component = "SP_ITSELF"
         THEN FOk("")
         ELSE FErr(response.err)

\* SingleSp::reset_component_trigger, the match on the rpc result.
reset_component_trigger(component, response) ==
    IF response.ok
    THEN IF component = "SP_ITSELF"
         THEN FErr(CommErr("BadResponseType", response.resp.tag, 0))
         ELSE Expect(response.resp, "ResetComponentTriggerAck")
    ELSE IF /\ response.err = CommErr("SpError", "ResetComponentTriggerWithoutPrepare", 0)
            /\ component = "SP_ITSELF"
         THEN FOk("")
         ELSE FErr(response.err)

\* The facade method does not return: an unwrap() or an assert! panics in
\* the caller's task.
FPanic == [ok |-> FALSE, err |-> NoErr, val |-> "panic"]

\* get_caboose_value and read_component_caboose: result.map with
\* `response.expect_caboose_value().unwrap(); data`.
caboose_value(response) ==
    IF ~response.ok THEN FErr(response.err)
    ELSE IF Expect(response.resp, "CabooseValue").ok THEN FOk("data")
    ELSE FPanic

\* CursorExt::remaining_slice(&data).len()
Remaining(len, pos) == len - Min(pos, len)

\* What each facade operation makes of the RpcResponse's result (and, for
\* set_ipcc_key_lookup_value, of the cursor returned with it).
FacadeResult(op, response) ==
    CASE op.name = "state" ->
            IF response.ok THEN Expect(response.resp, "SpState") ELSE FErr(response.err)
      [] op.name = "rpc_reset_trigger" ->
            IF response.ok THEN FOk(response.resp.tag) ELSE FErr(response.err)
      [] op.name = "reset_component_trigger" ->
            reset_component_trigger(op.component, response)
      [] op.name \in {"get_caboose_value", "read_component_caboose"} ->
            caboose_value(response)
      [] op.name = "set_ipcc_key_lookup_value" ->
            IF Remaining(wr'.len, wr'.pos) # 0 THEN FPanic
            ELSE IF response.ok
                 THEN Expect(response.resp, "SetIpccKeyLookupValueAck")
                 ELSE FErr(response.err)


(***************************************************************************)
(* Inner::rpc_call and Inner::rpc_call_one_attempt.                        *)
(***************************************************************************)

\* Variant: the division rounds down.
calc_reset_attempts_floor(per_attempt_timeout) ==
    as_millis(SP_RESET_TIME_ALLOWED) \div Max(as_millis(per_attempt_timeout), 1)

\* calc_reset_attempts: ceil(SP_RESET_TIME_ALLOWED / per-attempt timeout), in ms.
calc_reset_attempts(per_attempt_timeout) ==
    LET time_desired == as_millis(SP_RESET_TIME_ALLOWED)
        per_attempt == Max(as_millis(per_attempt_timeout), 1)
    IN  (time_desired + per_attempt - 1) \div per_attempt

\* The `match &request.kind` that chooses max_attempts.
max_attempts(kind, c) ==
    IF kind.tag = "ResetComponentTrigger" /\ kind.component = "SP_ITSELF"
        THEN calc_reset_attempts(c.per_attempt_timeout)
    ELSE IF kind.tag = "ResetTrigger"
        THEN calc_reset_attempts(c.per_attempt_timeout)
    ELSE c.max_attempts_per_rpc

NoRpc ==
    [id |-> U32Zero, max_attempts |-> 0, kind |-> Kind("", ""), ctx |-> "",
     attempt |-> 0, deadline |-> 0, busy_sp_backoff |-> 0,
     result |-> <<>>]

NoObs ==
    [sends |-> 0, ids |-> {}, busy |-> 0,
     att_sends |-> 0, att_oob |-> 0, att_resp |-> 0, att_first_sent |-> 0,
     ended |-> "", facade |-> <<>>, fwd |-> "", hp2 |-> <<>>, sc |-> <<>>,
     rcv |-> <<>>]

\* Observer: a new attempt begins at `now`.
ObsBeginAttempt(o, now) ==
    [o EXCEPT !.att_sends = 0, !.att_oob = 0, !.att_resp = 0, !.att_first_sent = now]

\* Observer: what the last pass of the loop of rpc_call_one_attempt took from
\* its select!: "timeout" (the timer), "mismatch" (an SpResponse with another
\* id), "reply" or "sp_error" (a matching SpResponse that is not Busy),
\* "send_error" (a matching Busy whose resend failed), "" (anything else);
\* or what run() took from its own: "ignored" (an SpResponse).
ObsEvent(o, what) ==
    [o EXCEPT !.ended = what, !.fwd = "", !.hp2 = <<>>, !.sc = <<>>, !.rcv = <<>>]

\* response_tx.send(response): the requester's facade method resumes with the
\* RpcResponse and returns what it makes of it (seen by the observer).
Delivered(o, op, response) ==
    [o EXCEPT !.facade = <<[op |-> op, response |-> response,
                            result |-> FacadeResult(op, response)]>>]

\* response_tx.send(resp) of a console command: the requester resumes with resp.
ConsoleDelivered(o, command, resp) ==
    [o EXCEPT !.facade = <<[op |-> command, response |-> resp, result |-> resp]>>]

\* mpsc::channel(SERIAL_CONSOLE_CHANNEL_DEPTH): the sender, with the state of
\* its channel (the receiver not dropped, nothing queued).
NewChannel == <<[closed |-> FALSE, queue |-> <<>>]>>

\* Variant: the key handed out is the current one.
attach_serial_console_same_key(result, key) ==
    IF ~result.ok THEN FErr(result.err)
    ELSE IF ~Expect(result.resp, "SerialConsoleAttachAck").ok
         THEN FErr(CommErr("BadResponseType", result.resp.tag, 0))
    ELSE [ok |-> TRUE, err |-> NoErr, val |-> key]

\* attach_serial_console after its rpc_call returned: `?` on the result and
\* on expect_serial_console_attach_ack, then the key of the new attachment.
attach_serial_console(result, key) ==
    IF ~result.ok THEN FErr(result.err)
    ELSE IF ~Expect(result.resp, "SerialConsoleAttachAck").ok
         THEN FErr(CommErr("BadResponseType", result.resp.tag, 0))
    ELSE [ok |-> TRUE, err |-> NoErr, val |-> key + 1]

\* detach_serial_console after its rpc_call returned.
detach_serial_console(result) ==
    IF ~result.ok THEN FErr(result.err)
    ELSE IF ~Expect(result.resp, "SerialConsoleDetachAck").ok
         THEN FErr(CommErr("BadResponseType", result.resp.tag, 0))
    ELSE FOk("")

\* The facade operation that sent `command`: its reply channel travels in
\* the command.
OpOf(command) ==
    IF command.cmd = "Rpc"
    THEN CHOOSE op \in CrateOps \cup CabooseOps
                           \cup {Op("set_ipcc_key_lookup_value", "")} :
            RequestOf(op) = command.kind
    ELSE command

\* `caller` is the requester of the oldest command not yet replied to: once
\* that one is replied to, the requester of the next command in the channel.
Requester(q) ==
    IF q = <<>> THEN NoCaller ELSE [pc |-> "waiting", op |-> OpOf(Head(q))]

\* Variant: discover() takes any successful response for a discovery.
DiscoverOk_any_response(result) == result.ok

\* discover(): the rpc result is Ok and expect_discover() accepts the response.
DiscoverOk(result) == result.ok /\ result.resp.tag = "Discover"

\* What the caller of rpc_call does with its result; `q` is the command channel
\* as the caller left it, `tx` the console sender as the call leaves it.
\*   cmd_rpc:           handle_command sends the RpcResponse to the requester.
\*   initial_discovery: discover() publishes the address and run() enters its
\*                      loop; on failure the pending commands are drained
\*                      (DrainCommand) and the task sleeps before retrying.
\*   idle_discovery:    discover() publishes the address; run() replaces sp_addr.
Continuation(ctx, result, q, o, tx) ==
    CASE ctx = "cmd_rpc" ->
            /\ pc' = "main"
            /\ caller' = Requester(q)
            /\ obs' = Delivered(o, caller.op, result)
            /\ cmds_rx' = q
            /\ serial_console_tx' = tx
            /\ UNCHANGED <<sp_addr_tx, sp_addr, serial_console_connection_key>>
      [] ctx = "initial_discovery" ->
            /\ serial_console_tx' = tx
            /\ UNCHANGED serial_console_connection_key
            /\ IF DiscoverOk(result)
               THEN /\ pc' = "main"
                    /\ sp_addr_tx' = <<result.peer>>
                    /\ sp_addr' = <<result.peer>>
                    /\ cmds_rx' = q
                    /\ obs' = o
                    /\ UNCHANGED caller
               ELSE /\ pc' = "discovery_drain"
                    /\ cmds_rx' = q
                    /\ obs' = o
                    /\ UNCHANGED <<caller, sp_addr_tx, sp_addr>>
      [] ctx = "idle_discovery" ->
            /\ pc' = "main"
            /\ cmds_rx' = q
            /\ IF DiscoverOk(result)
               THEN sp_addr_tx' = <<result.peer>> /\ sp_addr' = <<result.peer>>
               ELSE UNCHANGED <<sp_addr_tx, sp_addr>>
            /\ obs' = o
            /\ serial_console_tx' = tx
            /\ UNCHANGED <<caller, serial_console_connection_key>>
      [] ctx = "attach" ->
            LET resp == attach_serial_console(result, serial_console_connection_key)
            IN  /\ pc' = "main"
                /\ caller' = Requester(q)
                /\ cmds_rx' = q
                /\ obs' = ConsoleDelivered(o, caller.op, resp)
                /\ IF resp.ok
                   THEN /\ serial_console_tx' = NewChannel
                        /\ serial_console_connection_key' = resp.val
                   ELSE /\ serial_console_tx' = tx
                        /\ UNCHANGED serial_console_connection_key
                /\ UNCHANGED <<sp_addr_tx, sp_addr>>
      [] ctx = "detach" ->
            LET resp == detach_serial_console(result)
            IN  /\ pc' = "main"
                /\ caller' = Requester(q)
                /\ cmds_rx' = q
                /\ obs' = ConsoleDelivered(o, caller.op, resp)
                /\ serial_console_tx' = IF resp.ok THEN <<>> ELSE tx
                /\ UNCHANGED <<sp_addr_tx, sp_addr, serial_console_connection_key>>

\* rpc_call returns `result`.
Return(r, o, result, q, tx) ==
    /\ rpc' = [r EXCEPT !.result = <<result>>]
    /\ Continuation(r.ctx, result, q, o, tx)

\* Variant: the send does not reset the timer.
Transmit_keeps_deadline(r, o, now, q, send_ok, tx) ==
    IF send_ok
    THEN /\ rpc' = r
         /\ obs' = [o EXCEPT !.sends = @ + 1, !.ids = @ \cup {r.id},
                             !.att_sends = @ + 1]
         /\ pc' = "rpc_select"
         /\ cmds_rx' = q
         /\ serial_console_tx' = tx
         /\ UNCHANGED <<caller, sp_addr_tx, sp_addr, serial_console_connection_key>>
    ELSE Return(r, o, Err(CommErr("SendTo", "", 0)), q, tx)

\* Top of the loop of rpc_call_one_attempt with resend_request set: the request
\* is sent and the timer reset; a transport failure of send ends rpc_call.
Transmit(r, o, now, q, send_ok, tx) ==
    IF send_ok
    THEN /\ rpc' = [r EXCEPT !.deadline = now + cfg.per_attempt_timeout]
         /\ obs' = [o EXCEPT !.sends = @ + 1, !.ids = @ \cup {r.id},
                             !.att_sends = @ + 1]
         /\ pc' = "rpc_select"
         /\ cmds_rx' = q
         /\ serial_console_tx' = tx
         /\ UNCHANGED <<caller, sp_addr_tx, sp_addr, serial_console_connection_key>>
    ELSE Return(r, o, Err(CommErr("SendTo", "", 0)), q, tx)

\* The `for attempt in 1..=max_attempts` loop of rpc_call, after the current
\* attempt returned Ok(None): the next attempt (a new backoff policy, a new
\* timer, the same serialized request), or ExhaustedNumAttempts.
NextAttempt(r, o, now, q, send_ok, tx) ==
    IF r.attempt < r.max_attempts
    THEN Transmit([r EXCEPT !.attempt = @ + 1, !.busy_sp_backoff = INITIAL_INTERVAL],
                  ObsBeginAttempt(o, now), now, q, send_ok, tx)
    ELSE Return(r, o,
                Err(CommErr("ExhaustedNumAttempts", "", cfg.max_attempts_per_rpc)), q, tx)

\* gateway_messages::serialize_with_trailing_data, the number of trailing
\* bytes written: as many of the remaining bytes as fit after the message.
Packed(remaining, capacity) == Min(remaining, capacity)

\* The requests the facade sends with Some(cursor): rpc_with_trailing_data.
\* Every other request is sent by rpc(), with None.
CarriesCursor(kind) == kind.tag = "SetIpccKeyLookupValue"

\* Variant: the cursor is left where it was.
seek_none(pos, written) == pos

\* data.seek(SeekFrom::Current(written))
seek(pos, written) == pos + written

\* rpc_call serializing its request: with Some(data), as much of the cursor's
\* remaining slice as fits is packed and the cursor moved past it; `req` and
\* `rpcs` are the observer's record of the bytes packed and of the packets
\* built.  `wr` holds the cursor of the caller whose command is executed.
Serialized(w, kind) ==
    IF CarriesCursor(kind)
    THEN LET written == Packed(Remaining(w.len, w.pos), w.capacity)
         IN  [w EXCEPT !.pos = seek(@, written),
                       !.req = <<[len |-> written, offset |-> w.pos]>>,
                       !.rpcs = @ + 1]
    ELSE w

\* Entry of rpc_call from context `ctx`: the id is incremented once, the request
\* serialized once, max_attempts chosen, and the first attempt begun.
rpc_call(ctx, kind, q, send_ok) ==
    /\ calls < MaxCalls
    /\ calls' = calls + 1
    /\ clock' = 0
    /\ \E out \in IncrementOutcomes(message_id) :
          IF out.panic
          THEN /\ pc' = "panicked"
               /\ cmds_rx' = q
               /\ UNCHANGED <<message_id, rpc, obs, caller, sp_addr_tx, sp_addr,
                              serial_console_tx, serial_console_connection_key,
                              wr>>
          ELSE /\ message_id' = out.id
               /\ wr' = Serialized(wr, kind)
               /\ LET r == [NoRpc EXCEPT !.ctx = ctx, !.kind = kind, !.id = out.id,
                                         !.max_attempts = max_attempts(kind, cfg),
                                         !.busy_sp_backoff = INITIAL_INTERVAL]
                  IN  NextAttempt(r, NoObs, 0, q, send_ok, serial_console_tx)
    /\ UNCHANGED <<cfg, most_recent_host_phase2_request, tlv>>


\* The interval a backoff::ExponentialBackoff built by sp_busy_policy() moves to
\* after handing one out: multiplier 2.0, capped at MAX_INTERVAL.
NextInterval(current_interval) == Min(current_interval * 2, MAX_INTERVAL)

\* next_backoff() of that policy: the struct update `..Default::default()`
\* keeps the crate's randomization, so the sleep is drawn around the current
\* interval (here: its lower end or its upper end); it is
\* never None because max_elapsed_time is None.
BackoffSleeps(current_interval) ==
    {current_interval \div 2, current_interval + current_interval \div 2}

\* Variant: the slot keeps the first request it was given.
set_most_recent_host_phase2_request_keeps_first(request) ==
    IF most_recent_host_phase2_request = <<>>
    THEN <<request>>
    ELSE most_recent_host_phase2_request

\* set_most_recent_host_phase2_request
set_most_recent_host_phase2_request(request) == <<request>>

SERIAL_CONSOLE_CHANNEL_DEPTH == 32

\* Variants: try_send never finds the channel full; a closed channel leaves
\* the sender in place.
forward_serial_console_unbounded(tx, item) ==
    IF tx = <<>> THEN tx
    ELSE IF tx[1].closed THEN <<>>
    ELSE <<[tx[1] EXCEPT !.queue = Append(@, item)]>>
forward_serial_console_keeps_closed(tx, item) ==
    IF tx = <<>> THEN tx
    ELSE IF tx[1].closed THEN tx
    ELSE IF Len(tx[1].queue) >= SERIAL_CONSOLE_CHANNEL_DEPTH THEN tx
    ELSE <<[tx[1] EXCEPT !.queue = Append(@, item)]>>

\* Variant: the item is put at the head of the channel.
forward_serial_console_newest_first(tx, item) ==
    IF tx = <<>> THEN tx
    ELSE IF tx[1].closed THEN <<>>
    ELSE IF Len(tx[1].queue) >= SERIAL_CONSOLE_CHANNEL_DEPTH THEN tx
    ELSE <<[tx[1] EXCEPT !.queue = <<item>> \o @]>>

\* forward_serial_console: try_send on the attached channel, if any.
forward_serial_console(tx, item) ==
    IF tx = <<>> THEN tx
    ELSE IF tx[1].closed THEN <<>>
    ELSE IF Len(tx[1].queue) >= SERIAL_CONSOLE_CHANNEL_DEPTH THEN tx
    ELSE <<[tx[1] EXCEPT !.queue = Append(@, item)]>>

\* The effect of a message that is not an SpResponse, in the main loop and
\* inside an attempt alike.
SidebandEffect(m) ==
    IF m.type = "HostPhase2Request"
    THEN /\ most_recent_host_phase2_request' = set_most_recent_host_phase2_request(m.h)
         /\ UNCHANGED serial_console_tx
    ELSE /\ serial_console_tx' = forward_serial_console(serial_console_tx, m.h)
         /\ UNCHANGED most_recent_host_phase2_request

\* Observer: what try_send made of a SerialConsole message in
\* forward_serial_console: "sent", "full" or "closed"; "" if there was no
\* sender to try, or the message was not a SerialConsole one.
ForwardOutcome(tx, m) ==
    IF m.type = "HostPhase2Request" THEN ""
    ELSE IF tx = <<>> THEN ""
    ELSE IF tx[1].closed THEN "closed"
    ELSE IF Len(tx[1].queue) >= SERIAL_CONSOLE_CHANNEL_DEPTH THEN "full"
    ELSE "sent"

\* Observer: the HostPhase2Request a step received from the socket, if any.
HostPhase2Received(m) ==
    IF m.type = "HostPhase2Request" THEN <<m.h>> ELSE <<>>

\* Observer: the data of the SerialConsole message a step received from the
\* socket, if any.
ConsoleReceived(m) ==
    IF m.type = "SerialConsole" THEN <<m.h>> ELSE <<>>

\* The console sender as such a message leaves it.
SidebandTx(tx, m) ==
    IF m.type = "HostPhase2Request" THEN tx ELSE forward_serial_console(tx, m.h)

\* Variant: the HostPhase2Request and SerialConsole arms leave resend_request set.
resend_after_sideband_set == TRUE

\* resend_request as the HostPhase2Request and SerialConsole arms leave it.
resend_after_sideband == FALSE

engineFrame == <<cfg, message_id, calls, tlv>>

\* rpc_call_one_attempt, recv() returned a HostPhase2Request or SerialConsole
\* message: it is handled and the loop continues without resending.
RecvSideband(m, send_ok) ==
    /\ pc = "rpc_select"
    /\ UNCHANGED wr
    /\ most_recent_host_phase2_request' =
          IF m.type = "HostPhase2Request" THEN set_most_recent_host_phase2_request(m.h)
          ELSE most_recent_host_phase2_request
    /\ LET o == [obs EXCEPT !.att_oob = Min(@ + 1, MaxOob), !.ended = "",
                            !.fwd = ForwardOutcome(serial_console_tx, m),
                            !.hp2 = HostPhase2Received(m),
                            !.sc = ConsoleReceived(m), !.rcv = <<>>]
           tx == SidebandTx(serial_console_tx, m)
       IN  IF resend_after_sideband
           THEN Transmit(rpc, o, clock, cmds_rx, send_ok, tx)
           ELSE /\ obs' = o
                /\ serial_console_tx' = tx
                /\ UNCHANGED <<rpc, pc, cmds_rx, caller, sp_addr_tx, sp_addr,
                               serial_console_connection_key>>
    /\ UNCHANGED <<clock, engineFrame>>

\* Variants: the id check accepts every header; the id check accepts none.
IdMatches_any(request_id, header_id) == TRUE
IdMatches_none(request_id, header_id) == FALSE

\* The id check of the SpResponse arm.
IdMatches(request_id, header_id) == request_id = header_id

\* What the observer sees arrive, whatever the code makes of it.
Arrived(request_id, header_id, response) ==
    IF header_id # request_id THEN "mismatch"
    ELSE IF response = Busy THEN ""
    ELSE IF response.tag = "Error" THEN "sp_error"
    ELSE "reply"

\* rpc_call_one_attempt, recv() returned an SpResponse.
\*   another id:      the attempt returns Ok(None);
\*   Error(Busy):     the task sleeps for the next backoff, then continues the
\*                    loop with resend_request still set;
\*   Error(err):      rpc_call returns Err(err);
\*   anything else:   rpc_call returns Ok((peer, response, data)).
RecvSpResponse(peer, header_id, response, send_ok) ==
    /\ pc = "rpc_select"
    /\ response = Busy => obs.busy < MaxBusy
    /\ response.tag # "Discover" => peer = "addr1"
    /\ UNCHANGED wr
    /\ LET o == ObsEvent([obs EXCEPT !.att_resp = 1,
                                     !.busy = IF header_id = rpc.id /\ response = Busy
                                              THEN @ + 1 ELSE @],
                         Arrived(rpc.id, header_id, response))
       IN  IF ~IdMatches(rpc.id, header_id)
           THEN /\ NextAttempt(rpc, o, clock, cmds_rx, send_ok, serial_console_tx)
                /\ UNCHANGED clock
           ELSE IF response = Busy
           THEN \E backoff_sleep \in BackoffSleeps(rpc.busy_sp_backoff) :
                   /\ clock' = clock + backoff_sleep
                   /\ Transmit([rpc EXCEPT !.busy_sp_backoff = NextInterval(@)],
                               [o EXCEPT !.ended = IF send_ok THEN "" ELSE "send_error"],
                               clock', cmds_rx, send_ok, serial_console_tx)
           ELSE IF response.tag = "Error"
           THEN /\ Return(rpc, o, Err(CommErr("SpError", response.arg, 0)), cmds_rx,
                          serial_console_tx)
                /\ UNCHANGED clock
           ELSE /\ Return(rpc, o, Ok(peer, response), cmds_rx, serial_console_tx)
                /\ UNCHANGED clock
    /\ UNCHANGED <<most_recent_host_phase2_request, engineFrame>>

\* The first tick of `timeout` after its last reset.
TimerFired(now, deadline) == now >= deadline

\* rpc_call_one_attempt, the select! takes the timer branch: Ok(None).
Timeout(send_ok) ==
    /\ pc = "rpc_select"
    /\ TimerFired(clock, rpc.deadline)
    /\ UNCHANGED wr
    /\ NextAttempt(rpc, ObsEvent(obs, "timeout"), clock, cmds_rx, send_ok,
                   serial_console_tx)
    /\ UNCHANGED <<clock, most_recent_host_phase2_request, engineFrame>>

\* Time passes while the task waits in the select!, up to the timer's deadline.
Tick ==
    /\ pc = "rpc_select"
    /\ clock < rpc.deadline
    /\ clock' = rpc.deadline
    /\ UNCHANGED <<cfg, pc, message_id, most_recent_host_phase2_request,
                   serial_console_tx, serial_console_connection_key, sp_addr_tx,
                   sp_addr, cmds_rx, rpc, caller, calls, obs, tlv, wr>>


(***************************************************************************)
(* Inner::run, initial_discovery, handle_command, handle_incoming_message. *)
(***************************************************************************)

\* The locals of a returned rpc_call are dead: they and the observer's record
\* of the call are dropped by the next step of the main loop or of the caller.
Settle ==
    IF pc = "rpc_select"
    THEN UNCHANGED <<rpc, obs, clock>>
    ELSE rpc' = NoRpc /\ obs' = NoObs /\ clock' = 0

\* initial_discovery: discover() is called when the task starts and again
\* after each SLEEP_BETWEEN_DISCOVERY_RETRY.
InitialDiscovery(send_ok) ==
    /\ pc \in {"start", "discovery_sleep"}
    /\ rpc_call("initial_discovery", Discover, cmds_rx, send_ok)

\* What one arm of the drain loop of initial_discovery sends on the command's
\* reply channel; `slot` is most_recent_host_phase2_request.
DrainReply(command, slot) ==
    CASE command.cmd = "GetMostRecentHostPhase2Request" -> FOk(slot)
      [] command.cmd = "ClearMostRecentHostPhase2Request" -> FOk("")
      [] OTHER -> FErr(CommErr("NoSpDiscovered", "", 0))

\* initial_discovery after a failed discover(): one `self.cmds_rx.try_recv()`
\* that yields a command, and the arm that answers it.
DrainCommand ==
    /\ pc = "discovery_drain"
    /\ cmds_rx # <<>>
    /\ UNCHANGED wr
    /\ LET command == Head(cmds_rx)
       IN  /\ cmds_rx' = Tail(cmds_rx)
           /\ most_recent_host_phase2_request' =
                  IF command.cmd = "ClearMostRecentHostPhase2Request"
                  THEN <<>>
                  ELSE most_recent_host_phase2_request
           /\ obs' = IF command.cmd = "Rpc"
                     THEN Delivered(NoObs, caller.op,
                                    Err(CommErr("NoSpDiscovered", "", 0)))
                     ELSE ConsoleDelivered(NoObs, caller.op,
                             DrainReply(command, most_recent_host_phase2_request))
    /\ caller' = Requester(Tail(cmds_rx))
    /\ rpc' = NoRpc
    /\ clock' = 0
    /\ UNCHANGED <<cfg, pc, message_id, serial_console_tx,
                   serial_console_connection_key, sp_addr_tx, sp_addr, calls,
                   tlv>>

\* The same try_recv() finding the channel empty: the drain loop breaks and the
\* task sleeps SLEEP_BETWEEN_DISCOVERY_RETRY.
DrainDone ==
    /\ pc = "discovery_drain"
    /\ cmds_rx = <<>>
    /\ pc' = "discovery_sleep"
    /\ UNCHANGED <<cfg, message_id, most_recent_host_phase2_request,
                   serial_console_tx, serial_console_connection_key, sp_addr_tx,
                   sp_addr, cmds_rx, rpc, clock, caller, calls, obs, tlv, wr>>

\* Variant: a command is taken while the task sleeps between two discovery
\* attempts.
HandleCommand_while_discovering(send_ok) ==
    /\ pc \in {"main", "discovery_sleep"}
    /\ cmds_rx # <<>>
    /\ Head(cmds_rx).cmd = "Rpc"
    /\ rpc_call("cmd_rpc", Head(cmds_rx).kind, Tail(cmds_rx), send_ok)

\* Variant: the newest command of the channel is taken first.
HandleCommand_newest_first(send_ok) ==
    /\ pc = "main"
    /\ cmds_rx # <<>>
    /\ cmds_rx[Len(cmds_rx)].cmd = "Rpc"
    /\ rpc_call("cmd_rpc", cmds_rx[Len(cmds_rx)].kind,
                SubSeq(cmds_rx, 1, Len(cmds_rx) - 1), send_ok)

\* run(), select! branch `cmd = self.cmds_rx.recv()`, then handle_command.
HandleCommand(send_ok) ==
    /\ pc = "main"
    /\ cmds_rx # <<>>
    /\ LET command == Head(cmds_rx)
       IN  /\ command.cmd = "Rpc"
           /\ rpc_call("cmd_rpc", command.kind, Tail(cmds_rx), send_ok)

\* run(), select! branch `message = self.socket_handle.recv()`, with a
\* HostPhase2Request or SerialConsole message.
HandleIncomingSideband(m) ==
    /\ pc = "main"
    /\ SidebandEffect(m)
    /\ rpc' = NoRpc
    /\ clock' = 0
    /\ obs' = [NoObs EXCEPT !.fwd = ForwardOutcome(serial_console_tx, m),
                            !.hp2 = HostPhase2Received(m),
                            !.sc = ConsoleReceived(m)]
    /\ UNCHANGED <<cfg, pc, message_id, serial_console_connection_key, sp_addr_tx,
                   sp_addr, cmds_rx, caller, calls, tlv, wr>>

\* Variant: the peer of an SpResponse taken by the main loop is published as
\* the SP's address.
HandleIncomingSpResponse_publishes_peer(peer, header_id, response) ==
    /\ pc = "main"
    /\ rpc' = NoRpc
    /\ clock' = 0
    /\ obs' = ObsEvent(NoObs, "ignored")
    /\ sp_addr_tx' = <<peer>>
    /\ sp_addr' = <<peer>>
    /\ UNCHANGED <<cfg, pc, message_id, most_recent_host_phase2_request,
                   serial_console_tx, serial_console_connection_key,
                   cmds_rx, caller, calls, tlv, wr>>

\* The same branch with an SpResponse: logged and ignored (the observer sees
\* "ignored").
HandleIncomingSpResponse(peer, header_id, response) ==
    /\ pc = "main"
    /\ rpc' = NoRpc
    /\ clock' = 0
    /\ obs' = ObsEvent(NoObs, "ignored")
    /\ UNCHANGED <<cfg, pc, message_id, most_recent_host_phase2_request,
                   serial_console_tx, serial_console_connection_key, sp_addr_tx,
                   sp_addr, cmds_rx, caller, calls, tlv, wr>>

\* run(), select! branch `discovery_idle.tick()`.
IdleDiscovery(send_ok) ==
    /\ pc = "main"
    /\ rpc_call("idle_discovery", Discover, cmds_rx, send_ok)

(***************************************************************************)
(* The facade: SingleSp::rpc, state, reset_component_trigger.              *)
(***************************************************************************)
\* rpc(): the command is sent on the command channel; the caller then awaits
\* the oneshot reply.
FacadeCall(op) ==
    /\ caller.pc = "idle"
    /\ pc # "panicked"
    /\ calls < MaxCalls
    /\ Len(cmds_rx) < CMDS_CHANNEL_DEPTH
    /\ cmds_rx' = Append(cmds_rx, [kind |-> RequestOf(op), cmd |-> "Rpc"])
    /\ caller' = [pc |-> "waiting", op |-> op]
    /\ Settle
    /\ UNCHANGED <<cfg, pc, message_id, most_recent_host_phase2_request,
                   serial_console_tx, serial_console_connection_key, sp_addr_tx,
                   sp_addr, calls, tlv, wr>>

\* rpc() of another caller while an earlier command is still unanswered:
\* cmds_tx.send(..).await completes when the channel has room.  Beyond
\* MaxPending commands, callers are followed only up to the channel's capacity.
SubmitBehind(op) ==
    /\ caller.pc = "waiting"
    /\ pc # "panicked"
    /\ Len(cmds_rx) < CMDS_CHANNEL_DEPTH
    /\ Len(cmds_rx) < MaxPending \/ Len(cmds_rx) >= CMDS_CHANNEL_DEPTH - 1
    /\ cmds_rx' = Append(cmds_rx, [kind |-> RequestOf(op), cmd |-> "Rpc"])
    /\ UNCHANGED <<cfg, pc, message_id, most_recent_host_phase2_request,
                   serial_console_tx, serial_console_connection_key, sp_addr_tx,
                   sp_addr, rpc, clock, caller, calls, obs, tlv, wr>>

\* get_paginated_tlv_data as it starts: page0_total = None, entries empty.
\* first and last are the observer's record of the first and the latest page
\* header received, rpcs of the number of requests issued.
NoTlv ==
    [pc |-> "loop", result |-> <<>>, offset |-> 0, rpcs |-> 0,
     page0_total |-> <<>>, entries |-> <<>>, total |-> 0,
     data |-> <<>>, first |-> <<>>, last |-> <<>>]

\* An AttachedSerialConsoleSend as split() makes it (tx_offset 0), with no
\* write in progress.  len and pos are the cursor `data`, capacity the number
\* of trailing bytes one packet holds; tx_offset0, req and rpcs are the
\* observer's record of tx_offset at entry, of the latest request issued
\* (its offset and its number of trailing bytes), of the number of requests
\* (up to MaxWriteRpcs); ack is the count of the ack that answered req.
NoWrite ==
    [pc |-> "idle", len |-> 0, pos |-> 0, result |-> <<>>, capacity |-> 0,
     req |-> <<>>, rpcs |-> 0, tx_offset |-> 0,
     remaining_data |-> 0, data_sent |-> 0, tx_offset0 |-> 0, ack |-> <<>>]

\* Inner::new and SingleSp::new_impl: the state when the reactor task starts.
InitReactor ==
    /\ pc = "start"
    /\ most_recent_host_phase2_request = <<>>
    /\ serial_console_tx = <<>>
    /\ serial_console_connection_key = 0
    /\ sp_addr_tx = <<>>
    /\ sp_addr = <<>>
    /\ cmds_rx = <<>>
    /\ rpc = NoRpc
    /\ clock = 0
    /\ caller = NoCaller
    /\ calls = 0
    /\ obs = NoObs
    /\ tlv = NoTlv
    /\ wr = NoWrite

Init ==
    /\ cfg \in Configs
    /\ message_id = U32Zero
    /\ InitReactor

Next ==
    \/ \E ok \in BOOLEAN : InitialDiscovery(ok)
    \/ DrainCommand
    \/ DrainDone
    \/ \E ok \in BOOLEAN : HandleCommand(ok)
    \/ \E m \in OobMessages : HandleIncomingSideband(m)
    \/ \E peer \in Peers, id \in {rpc.id, U32Zero}, response \in SpResponses :
          HandleIncomingSpResponse(peer, id, response)
    \/ \E ok \in BOOLEAN : IdleDiscovery(ok)
    \/ \E m \in OobMessages, ok \in BOOLEAN : RecvSideband(m, ok)
    \/ \E peer \in Peers, id \in {rpc.id, U32Zero}, response \in SpResponses,
          ok \in BOOLEAN : RecvSpResponse(peer, id, response, ok)
    \/ \E ok \in BOOLEAN : Timeout(ok)
    \/ Tick
    \/ \E op \in FacadeOps : FacadeCall(op)

Spec == Init /\ [][Next]_vars

(***************************************************************************)
(* One rpc_call in isolation: the reactor has discovered its SP, is in its *)
(* main loop, and the command channel holds one Rpc command.               *)
(***************************************************************************)
RpcConfigs ==
    [max_attempts_per_rpc : {1, 3},
     per_attempt_timeout : {7000000, 45000000}]

InitRpc ==
    /\ cfg \in RpcConfigs
    /\ message_id = <<0, 1>>
    /\ pc = "main"
    /\ most_recent_host_phase2_request = <<>>
    /\ serial_console_tx = <<>>
    /\ serial_console_connection_key = 0
    /\ sp_addr_tx = <<"addr1">>
    /\ sp_addr = <<"addr1">>
    /\ \E op \in CrateOps :
          /\ cmds_rx = <<[kind |-> RequestOf(op), cmd |-> "Rpc"]>>
          /\ caller = [pc |-> "waiting", op |-> op]
    /\ rpc = NoRpc
    /\ clock = 0
    /\ calls = 1
    /\ obs = NoObs
    /\ tlv = NoTlv
    /\ wr = NoWrite

NextRpc ==
    \/ \E ok \in BOOLEAN : HandleCommand(ok)
    \/ \E m \in OobMessages, ok \in BOOLEAN : RecvSideband(m, ok)
    \/ \E peer \in Peers, id \in {rpc.id, U32Zero}, response \in SpResponses,
          ok \in BOOLEAN : RecvSpResponse(peer, id, response, ok)
    \/ \E ok \in BOOLEAN : Timeout(ok)
    \/ Tick

SpecRpc == InitRpc /\ [][NextRpc]_vars

(***************************************************************************)
(* SingleSp::get_paginated_tlv_data.  Each self.rpc(rpc.request(offset))   *)
(* is taken as a whole: it fails, or its response is not the expected      *)
(* variant, or it yields a page header {offset, total} and TLV data.       *)
(***************************************************************************)
MaxTotal == 3
MaxChunks == 2
MaxRpcs == 4

\* What tlv::decode_iter yields for one chunk of the data: a known tag whose
\* value parses, a tag unknown to the parser, a known tag whose value does not
\* parse, a chunk that is not valid TLV.
ChunkKinds == {"item", "unknown", "bad_value", "bad_tlv"}

RECURSIVE SeqsUpTo(_, _)
SeqsUpTo(S, n) ==
    IF n = 0 THEN {<<>>}
    ELSE LET shorter == SeqsUpTo(S, n - 1)
         IN  shorter \cup {Append(q, x) : q \in {r \in shorter : Len(r) = n - 1}, x \in S}

PageTotals == (0 .. MaxTotal) \cup {TLV_RPC_TOTAL_ITEMS_DOS_LIMIT, TLV_RPC_TOTAL_ITEMS_DOS_LIMIT + 1}
PageOffsets(requested) == {0, requested, requested + 1}

TlvOk(entries) == [ok |-> TRUE, err |-> "", val |-> entries]
TlvErr(reason) == [ok |-> FALSE, err |-> reason, val |-> <<>>]
TlvReturn(t, result) == [t EXCEPT !.pc = "done", !.result = <<result>>]

\* `while entries.len() < page0_total.unwrap_or(usize::MAX)`
LoopContinues(len, page0_total) ==
    IF page0_total = <<>> THEN TRUE ELSE len < page0_total[1]

\* Variant: the page's offset is not compared.
OffsetUnexpected_never(page_offset, offset) == FALSE

\* `if page.offset != offset`
OffsetUnexpected(page_offset, offset) == page_offset # offset

\* Variant: the total of a later page is not compared.
TotalChanged_never(n, page_total) == FALSE

\* `if n != page.total as usize`
TotalChanged(n, page_total) == n # page_total

\* `if page.total > TLV_RPC_TOTAL_ITEMS_DOS_LIMIT`
TooManyItems(page_total) == page_total > TLV_RPC_TOTAL_ITEMS_DOS_LIMIT

\* Variant: chunks are accepted whatever the total.
OverReported_never(len, total) == FALSE

\* `if entries.len() >= total`
OverReported(len, total) == len >= total

\* Variant: a page that added nothing is not noticed.
NoProgress_never(len, offset, total) == FALSE

\* `if entries.len() as u32 == offset && total > 0`
NoProgress(len, offset, total) == len = offset /\ total > 0

\* How self.rpc(..).and_then(parse_response) fails.
RpcFailureReasons == {"ExhaustedNumAttempts", "SpError", "BadResponseType"}

tlvFrame ==
    <<cfg, pc, message_id, most_recent_host_phase2_request, serial_console_tx,
      serial_console_connection_key, sp_addr_tx, sp_addr, cmds_rx, rpc, clock,
      caller, calls, obs, wr>>

\* The loop condition is false: Ok(entries).
TlvReturnOk ==
    /\ tlv.pc = "loop"
    /\ ~LoopContinues(Len(tlv.entries), tlv.page0_total)
    /\ tlv' = TlvReturn(tlv, TlvOk(tlv.entries))
    /\ UNCHANGED tlvFrame

\* The loop body's rpc fails, or parse_response rejects its response: `?`
\* returns the error.
TlvRpcFails(reason) ==
    /\ tlv.pc = "loop"
    /\ LoopContinues(Len(tlv.entries), tlv.page0_total)
    /\ tlv.rpcs < MaxRpcs
    /\ tlv' = TlvReturn([tlv EXCEPT !.rpcs = @ + 1, !.offset = Len(tlv.entries)],
                        TlvErr(reason))
    /\ UNCHANGED tlvFrame

\* The loop body's rpc yields a page: the offset check, then the total check
\* (against page0_total, or against the limit on the first page).
TlvPageArrives(page_offset, page_total, data) ==
    /\ tlv.pc = "loop"
    /\ LoopContinues(Len(tlv.entries), tlv.page0_total)
    /\ tlv.rpcs < MaxRpcs
    /\ LET offset == Len(tlv.entries)
           header == [offset |-> page_offset, total |-> page_total]
           t == [tlv EXCEPT !.rpcs = @ + 1, !.offset = offset,
                            !.first = IF @ = <<>> THEN <<header>> ELSE @,
                            !.last = <<header>>]
       IN  tlv' =
             IF OffsetUnexpected(page_offset, offset)
             THEN TlvReturn(t, TlvErr("unexpected offset from SP"))
             ELSE IF tlv.page0_total # <<>>
             THEN IF TotalChanged(tlv.page0_total[1], page_total)
                  THEN TlvReturn(t, TlvErr("total item count changed"))
                  ELSE [t EXCEPT !.pc = "decode", !.total = tlv.page0_total[1],
                                 !.data = data]
             ELSE IF TooManyItems(page_total)
                  THEN TlvReturn(t, TlvErr("too many items"))
                  ELSE [t EXCEPT !.pc = "decode", !.total = page_total,
                                 !.page0_total = <<page_total>>, !.data = data]
    /\ UNCHANGED tlvFrame

\* One pass of `for result in tlv::decode_iter(&data)`.
TlvChunk ==
    /\ tlv.pc = "decode"
    /\ tlv.data # <<>>
    /\ LET chunk == Head(tlv.data)
           t == [tlv EXCEPT !.data = Tail(@)]
       IN  tlv' =
             IF chunk = "bad_tlv"
             THEN TlvReturn(t, TlvErr("TlvDecode"))
             ELSE IF OverReported(Len(tlv.entries), tlv.total)
             THEN TlvReturn(t, TlvErr("SP returned more entries than its reported total"))
             ELSE IF chunk = "bad_value"
             THEN TlvReturn(t, TlvErr("TlvDeserialize"))
             ELSE IF chunk = "item"
             THEN [t EXCEPT !.entries = Append(@, "item")]
             ELSE t
    /\ UNCHANGED tlvFrame

\* The data is drained: the no-progress check, then the loop condition again.
TlvPageEnd ==
    /\ tlv.pc = "decode"
    /\ tlv.data = <<>>
    /\ tlv' =
          IF NoProgress(Len(tlv.entries), tlv.offset, tlv.total)
          THEN TlvReturn(tlv, TlvErr("failed to parse any entries from SP response"))
          ELSE [tlv EXCEPT !.pc = "loop"]
    /\ UNCHANGED tlvFrame

InitTlv ==
    /\ cfg \in Configs
    /\ message_id = <<0, 1>>
    /\ pc = "main"
    /\ most_recent_host_phase2_request = <<>>
    /\ serial_console_tx = <<>>
    /\ serial_console_connection_key = 0
    /\ sp_addr_tx = <<"addr1">>
    /\ sp_addr = <<"addr1">>
    /\ cmds_rx = <<>>
    /\ rpc = NoRpc
    /\ clock = 0
    /\ caller = NoCaller
    /\ calls = 1
    /\ obs = NoObs
    /\ tlv = NoTlv
    /\ wr = NoWrite

NextTlv ==
    \/ TlvReturnOk
    \/ \E reason \in RpcFailureReasons : TlvRpcFails(reason)
    \/ \E page_offset \in PageOffsets(Len(tlv.entries)), page_total \in PageTotals,
          data \in SeqsUpTo(ChunkKinds, MaxChunks) :
          TlvPageArrives(page_offset, page_total, data)
    \/ TlvChunk
    \/ TlvPageEnd

SpecTlv == InitTlv /\ [][NextTlv]_vars

\* Every RPC the query issues returns, and the task is scheduled.
SpecTlvFair == SpecTlv /\ WF_vars(NextTlv)

(***************************************************************************)
(* The reactor's main loop when message_id is one short of u32::MAX.       *)
(***************************************************************************)
InitIdWrap ==
    /\ cfg \in Configs
    /\ message_id = <<Half - 1, Half - 2>>
    /\ pc = "main"
    /\ most_recent_host_phase2_request = <<>>
    /\ serial_console_tx = <<>>
    /\ serial_console_connection_key = 0
    /\ sp_addr_tx = <<"addr1">>
    /\ sp_addr = <<"addr1">>
    /\ cmds_rx = <<>>
    /\ rpc = NoRpc
    /\ clock = 0
    /\ caller = NoCaller
    /\ calls = 0
    /\ obs = NoObs
    /\ tlv = NoTlv
    /\ wr = NoWrite

NextIdWrap ==
    \/ \E ok \in BOOLEAN : HandleCommand(ok)
    \/ \E m \in OobMessages : HandleIncomingSideband(m)
    \/ \E peer \in Peers, id \in {rpc.id, U32Zero}, response \in SpResponses :
          HandleIncomingSpResponse(peer, id, response)
    \/ \E ok \in BOOLEAN : IdleDiscovery(ok)
    \/ \E m \in OobMessages, ok \in BOOLEAN : RecvSideband(m, ok)
    \/ \E peer \in Peers, id \in {rpc.id, U32Zero}, response \in SpResponses,
          ok \in BOOLEAN : RecvSpResponse(peer, id, response, ok)
    \/ \E ok \in BOOLEAN : Timeout(ok)
    \/ Tick
    \/ \E op \in FacadeOps : FacadeCall(op)

SpecIdWrap == InitIdWrap /\ [][NextIdWrap]_vars

(***************************************************************************)
(* The reactor's main loop after the first discovery, with several callers *)
(* sending commands.                                                       *)
(***************************************************************************)
\* The first discover() has returned addr1 with message id 1.  Callers may
\* have sent commands in the meantime: none, or one fewer than the command
\* channel holds.
InitOperating ==
    /\ cfg \in {c \in Configs : c.max_attempts_per_rpc = 2}
    /\ message_id = <<0, 1>>
    /\ pc = "main"
    /\ most_recent_host_phase2_request = <<>>
    /\ serial_console_tx = <<>>
    /\ serial_console_connection_key = 0
    /\ sp_addr_tx = <<"addr1">>
    /\ sp_addr = <<"addr1">>
    /\ \E n \in {0, CMDS_CHANNEL_DEPTH - 1} :
          cmds_rx = [i \in 1 .. n |-> [kind |-> Kind("SpState", ""), cmd |-> "Rpc"]]
    /\ caller = Requester(cmds_rx)
    /\ rpc = NoRpc
    /\ clock = 0
    /\ calls = 0
    /\ obs = NoObs
    /\ tlv = NoTlv
    /\ wr = NoWrite

NextOperating ==
    \/ \E ok \in BOOLEAN : HandleCommand(ok)
    \/ \E m \in OobMessages : HandleIncomingSideband(m)
    \/ \E peer \in Peers, id \in {rpc.id, U32Zero}, response \in SpResponses :
          HandleIncomingSpResponse(peer, id, response)
    \/ \E ok \in BOOLEAN : IdleDiscovery(ok)
    \/ \E m \in OobMessages, ok \in BOOLEAN : RecvSideband(m, ok)
    \/ \E peer \in Peers, id \in {rpc.id, U32Zero}, response \in SpResponses \ {Busy},
          ok \in BOOLEAN : RecvSpResponse(peer, id, response, ok)
    \/ \E ok \in BOOLEAN : Timeout(ok)
    \/ Tick
    \/ FacadeCall(Op("state", ""))
    \/ \E op \in {Op("state", ""), Op("reset_component_trigger", "ROT")} :
          SubmitBehind(op)

SpecOperating == InitOperating /\ [][NextOperating]_vars

(***************************************************************************)
(* The entry of rpc_call over a range of configurations: the command       *)
(* channel holds one Rpc command and handle_command takes it.              *)
(***************************************************************************)
MaxAttemptsPerRpc == 3

\* per_attempt_timeout, in microseconds.
AttemptTimeouts ==
    {1, 999, 1000, 1001, 1999, 7000, 200000, 7000000, 29999999, 30000000,
     30000999, 30001000, 45000000}

InitAttempts ==
    /\ cfg \in [max_attempts_per_rpc : 1 .. MaxAttemptsPerRpc,
                 per_attempt_timeout : AttemptTimeouts]
    /\ message_id = <<0, 1>>
    /\ pc = "main"
    /\ most_recent_host_phase2_request = <<>>
    /\ serial_console_tx = <<>>
    /\ serial_console_connection_key = 0
    /\ sp_addr_tx = <<"addr1">>
    /\ sp_addr = <<"addr1">>
    /\ \E op \in CrateOps :
          /\ cmds_rx = <<[kind |-> RequestOf(op), cmd |-> "Rpc"]>>
          /\ caller = [pc |-> "waiting", op |-> op]
    /\ rpc = NoRpc
    /\ clock = 0
    /\ calls = 1
    /\ obs = NoObs
    /\ tlv = NoTlv
    /\ wr = NoWrite

NextAttempts == \E ok \in BOOLEAN : HandleCommand(ok)

SpecAttempts == InitAttempts /\ [][NextAttempts]_vars

(***************************************************************************)
(* AttachedSerialConsoleSend::write.  Each rpc_with_trailing_data is taken *)
(* in two steps: the reactor serializes the request, which advances the    *)
(* cursor by the bytes packed; then the RPC returns and the loop body runs *)
(* to the next test of the loop condition.                                 *)
(***************************************************************************)
MaxData == 3
MaxWriteRpcs == 3

\* Numbers of trailing bytes one packet holds, lengths of `data` written
\* through such packets, and values of tx_offset when write is called.
Capacities == (1 .. MaxData) \cup {512}
DataLens(capacity) ==
    IF capacity > MaxData THEN (0 .. MaxData) \cup {600} ELSE 0 .. MaxData
EntryOffsets == {0, 5}

WrOk == [ok |-> TRUE, err |-> ""]
WrErr(reason) == [ok |-> FALSE, err |-> reason]

\* Variant: only `n < self.tx_offset` is checked.
AckBogus_low_only(n, tx_offset, data_sent) == n < tx_offset

\* The two checks of the ack: n is in tx_offset ..= tx_offset + data_sent.
AckBogus(n, tx_offset, data_sent) ==
    \/ n < tx_offset
    \/ n - tx_offset > data_sent

\* Variants: the cursor is never rewound; a partial ack rewinds everything
\* that was sent.
Rewind_none(data_sent, bytes_accepted) == 0
Rewind_whole(data_sent, bytes_accepted) ==
    IF bytes_accepted < data_sent THEN data_sent ELSE 0

\* The rewind of the cursor after an ack that accepted bytes_accepted of the
\* data_sent bytes.
Rewind(data_sent, bytes_accepted) ==
    IF bytes_accepted < data_sent THEN data_sent - bytes_accepted ELSE 0

writeFrame ==
    <<cfg, pc, message_id, most_recent_host_phase2_request, serial_console_tx,
      serial_console_connection_key, sp_addr_tx, sp_addr, cmds_rx, rpc, clock,
      caller, calls, obs, tlv>>

\* write(data) is called: the cursor is created and the loop condition tested.
WriteBegin(len) ==
    /\ wr.pc = "idle"
    /\ LET remaining_data == Remaining(len, 0)
       IN  wr' = [wr EXCEPT !.len = len, !.pos = 0,
                            !.remaining_data = remaining_data,
                            !.pc = IF remaining_data > 0 THEN "loop" ELSE "done",
                            !.result = IF remaining_data > 0 THEN <<>> ELSE <<WrOk>>]
    /\ UNCHANGED writeFrame

\* rpc_with_trailing_data(SerialConsoleWrite { offset: self.tx_offset }, data):
\* rpc_call serializes the request with as much of the cursor's remaining
\* slice as fits and seeks the cursor forward by that much.
WriteRpc ==
    /\ wr.pc = "loop"
    /\ LET written == Packed(Remaining(wr.len, wr.pos), wr.capacity)
       IN  wr' = [wr EXCEPT !.pc = "await", !.pos = @ + written,
                            !.req = <<[len |-> written, offset |-> wr.tx_offset]>>,
                            !.ack = <<>>,
                            !.rpcs = Min(@ + 1, MaxWriteRpcs)]
    /\ UNCHANGED writeFrame

\* The RPC returns Err, or a response that is not SerialConsoleWriteAck: `?`.
WriteRpcFails(reason) ==
    /\ wr.pc = "await"
    /\ wr' = [wr EXCEPT !.pc = "done",
                        !.data_sent = wr.remaining_data - Remaining(wr.len, wr.pos),
                        !.result = <<WrErr(reason)>>]
    /\ UNCHANGED writeFrame

\* The RPC returns SerialConsoleWriteAck { furthest_ingested_offset: n }: the
\* rest of the loop body, and the next test of the loop condition.
WriteAck(n) ==
    /\ wr.pc = "await"
    /\ LET data_sent == wr.remaining_data - Remaining(wr.len, wr.pos)
           bytes_accepted == n - wr.tx_offset
       IN  IF AckBogus(n, wr.tx_offset, data_sent)
           THEN wr' = [wr EXCEPT !.pc = "done", !.data_sent = data_sent,
                                 !.ack = <<n>>,
                                 !.result = <<WrErr("BogusSerialConsoleState")>>]
           ELSE LET pos == wr.pos - Rewind(data_sent, bytes_accepted)
                    remaining_data == Remaining(wr.len, pos)
                IN  wr' = [wr EXCEPT !.pos = pos, !.data_sent = data_sent,
                                     !.ack = <<n>>,
                                     !.tx_offset = @ + bytes_accepted,
                                     !.remaining_data = remaining_data,
                                     !.pc = IF remaining_data > 0 THEN "loop" ELSE "done",
                                     !.result = IF remaining_data > 0 THEN <<>>
                                                ELSE <<WrOk>>]
    /\ UNCHANGED writeFrame

\* The counts an SP may put in an ack: it accepts none, a few, 400 or all
\* but one of the bytes sent, or all of them; or the count is one below or
\* one above the range the writer accepts.
Acks(tx_offset, sent) ==
    {n \in {tx_offset + k : k \in (-1 .. MaxData) \cup {400, sent - 1, sent, sent + 1}} :
        n >= 0}

InitWrite ==
    /\ cfg \in Configs
    /\ message_id = <<0, 1>>
    /\ pc = "main"
    /\ most_recent_host_phase2_request = <<>>
    /\ serial_console_tx = <<[closed |-> FALSE, queue |-> <<>>]>>
    /\ serial_console_connection_key = 1
    /\ sp_addr_tx = <<"addr1">>
    /\ sp_addr = <<"addr1">>
    /\ cmds_rx = <<>>
    /\ rpc = NoRpc
    /\ clock = 0
    /\ caller = NoCaller
    /\ calls = 0
    /\ obs = NoObs
    /\ tlv = NoTlv
    /\ \E capacity \in Capacities, tx_offset \in EntryOffsets :
          wr = [NoWrite EXCEPT !.capacity = capacity, !.tx_offset = tx_offset,
                               !.tx_offset0 = tx_offset]

NextWrite ==
    \/ \E len \in DataLens(wr.capacity) : WriteBegin(len)
    \/ WriteRpc
    \/ \E reason \in RpcFailureReasons : WriteRpcFails(reason)
    \/ \E n \in Acks(wr.tx_offset, IF wr.req = <<>> THEN 0 ELSE wr.req[1].len) :
          WriteAck(n)

SpecWrite == InitWrite /\ [][NextWrite]_vars

\* Every RPC the writer issues returns.
SpecWriteFair == SpecWrite /\ WF_vars(NextWrite)

(***************************************************************************)
(* The serial console commands of handle_command: SerialConsoleAttach and  *)
(* SerialConsoleDetach, with attach_serial_console and                     *)
(* detach_serial_console.                                                  *)
(***************************************************************************)
MaxKey == 2
MaxQueued == 1

ConsoleComponent == "SP3_HOST_CPU"

\* InnerCommand::SerialConsoleAttach and InnerCommand::SerialConsoleDetach;
\* key is <<>> for None and <<k>> for Some(k).
AttachCommand == [key |-> <<>>, cmd |-> "SerialConsoleAttach"]
DetachCommand(key) == [key |-> key, cmd |-> "SerialConsoleDetach"]

\* The commands that can be sent when the reactor's connection key is
\* `current`: SingleSp::serial_console_attach, SingleSp::serial_console_detach
\* (no key), and AttachedSerialConsoleSend::detach of any session attached so
\* far (its own key).
ConsoleCommands(current) ==
    {AttachCommand, DetachCommand(<<>>)} \cup {DetachCommand(<<k>>) : k \in 1 .. current}

\* What the SP is taken to answer to the console requests.
ConsoleResponses ==
    { Resp("Error", "SerialConsoleNotAttached"),
      Resp("SerialConsoleAttachAck", ""),
      Resp("SerialConsoleDetachAck", "") }

\* The command is sent on the command channel; the caller awaits the reply.
ConsoleCall(command) ==
    /\ caller.pc = "idle"
    /\ pc # "panicked"
    /\ calls < MaxCalls
    /\ Len(cmds_rx) < CMDS_CHANNEL_DEPTH
    /\ cmds_rx' = Append(cmds_rx, command)
    /\ caller' = [pc |-> "waiting", op |-> command]
    /\ Settle
    /\ UNCHANGED <<cfg, pc, message_id, most_recent_host_phase2_request,
                   serial_console_tx, serial_console_connection_key, sp_addr_tx,
                   sp_addr, calls, tlv, wr>>

\* A console command answered without calling rpc_call.
ConsoleReply(resp) ==
    /\ cmds_rx' = Tail(cmds_rx)
    /\ caller' = Requester(Tail(cmds_rx))
    /\ rpc' = NoRpc
    /\ clock' = 0
    /\ obs' = ConsoleDelivered(NoObs, caller.op, resp)
    /\ UNCHANGED <<cfg, pc, message_id, most_recent_host_phase2_request,
                   serial_console_tx, serial_console_connection_key, sp_addr_tx,
                   sp_addr, calls, tlv, wr>>

\* Variant: a sender whose channel is closed does not count as attached.
HandleSerialConsoleAttach_unless_closed(send_ok) ==
    /\ pc = "main"
    /\ cmds_rx # <<>>
    /\ Head(cmds_rx).cmd = "SerialConsoleAttach"
    /\ IF serial_console_tx # <<>> /\ ~serial_console_tx[1].closed
       THEN ConsoleReply(FErr(CommErr("SpError", "SerialConsoleAlreadyAttached", 0)))
       ELSE rpc_call("attach", Kind("SerialConsoleAttach", ConsoleComponent),
                     Tail(cmds_rx), send_ok)

\* run(), a SerialConsoleAttach command: attach_serial_console up to the
\* return of AlreadyAttached or the entry of its rpc_call.
HandleSerialConsoleAttach(send_ok) ==
    /\ pc = "main"
    /\ cmds_rx # <<>>
    /\ Head(cmds_rx).cmd = "SerialConsoleAttach"
    /\ IF serial_console_tx # <<>>
       THEN ConsoleReply(FErr(CommErr("SpError", "SerialConsoleAlreadyAttached", 0)))
       ELSE rpc_call("attach", Kind("SerialConsoleAttach", ConsoleComponent),
                     Tail(cmds_rx), send_ok)

\* Variant: every detach is carried out, whatever its key.
DetachApplies_always(key, current) == TRUE

\* `key.is_none() || key == Some(self.serial_console_connection_key)`
DetachApplies(key, current) == key = <<>> \/ key = <<current>>

\* run(), a SerialConsoleDetach command: detach_serial_console up to the
\* entry of its rpc_call, or Ok(()) for another key.
HandleSerialConsoleDetach(send_ok) ==
    /\ pc = "main"
    /\ cmds_rx # <<>>
    /\ Head(cmds_rx).cmd = "SerialConsoleDetach"
    /\ IF DetachApplies(Head(cmds_rx).key, serial_console_connection_key)
       THEN rpc_call("detach", Kind("SerialConsoleDetach", ""), Tail(cmds_rx), send_ok)
       ELSE ConsoleReply(FOk(""))

\* The AttachedSerialConsoleRecv (or the unsplit AttachedSerialConsole) is
\* dropped: the channel is closed.
ReceiverDropped ==
    /\ serial_console_tx # <<>>
    /\ ~serial_console_tx[1].closed
    /\ serial_console_tx' = <<[serial_console_tx[1] EXCEPT !.closed = TRUE]>>
    /\ UNCHANGED <<cfg, pc, message_id, most_recent_host_phase2_request,
                   serial_console_connection_key, sp_addr_tx, sp_addr, cmds_rx,
                   rpc, clock, caller, calls, obs, tlv, wr>>

\* SerialConsole messages arrive while the attached channel, if it is open,
\* holds fewer than MaxQueued of them, or is within one of being full.
ConsoleOob == [type |-> "SerialConsole", h |-> ""]
QueueRoom ==
    IF serial_console_tx = <<>> THEN TRUE
    ELSE IF serial_console_tx[1].closed THEN TRUE
    ELSE \/ Len(serial_console_tx[1].queue) < MaxQueued
         \/ Len(serial_console_tx[1].queue) >= SERIAL_CONSOLE_CHANNEL_DEPTH - 1

\* The reactor in its main loop after any number of attachments: the key
\* counts them, and a sender is held only if there was one.
InitConsole ==
    /\ cfg \in Configs
    /\ message_id = <<0, 1>>
    /\ pc = "main"
    /\ most_recent_host_phase2_request = <<>>
    /\ serial_console_connection_key \in 0 .. MaxKey
    /\ serial_console_tx \in
          IF serial_console_connection_key = 0 THEN {<<>>} ELSE {<<>>, NewChannel}
    /\ sp_addr_tx = <<"addr1">>
    /\ sp_addr = <<"addr1">>
    /\ cmds_rx = <<>>
    /\ rpc = NoRpc
    /\ clock = 0
    /\ caller = NoCaller
    /\ calls = 0
    /\ obs = NoObs
    /\ tlv = NoTlv
    /\ wr = NoWrite

NextConsole ==
    \/ \E command \in ConsoleCommands(serial_console_connection_key) : ConsoleCall(command)
    \/ \E ok \in BOOLEAN : HandleSerialConsoleAttach(ok)
    \/ \E ok \in BOOLEAN : HandleSerialConsoleDetach(ok)
    \/ QueueRoom /\ HandleIncomingSideband(ConsoleOob)
    \/ \E ok \in BOOLEAN : QueueRoom /\ RecvSideband(ConsoleOob, ok)
    \/ \E id \in {rpc.id, U32Zero}, response \in ConsoleResponses, ok \in BOOLEAN :
          RecvSpResponse("addr1", id, response, ok)
    \/ \E ok \in BOOLEAN : Timeout(ok)
    \/ Tick
    \/ ReceiverDropped

SpecConsole == InitConsole /\ [][NextConsole]_vars

(***************************************************************************)
(* Forwarding of SerialConsole messages to an attached channel, in the     *)
(* main loop and inside the attempts of an attach or detach RPC.           *)
(***************************************************************************)
\* The reactor in its main loop with a console attached (key 1) whose
\* receiver has taken everything, or has left all but one slot filled.
InitForward ==
    /\ cfg \in Configs
    /\ message_id = <<0, 1>>
    /\ pc = "main"
    /\ most_recent_host_phase2_request = <<>>
    /\ serial_console_connection_key = 1
    /\ \E n \in {0, SERIAL_CONSOLE_CHANNEL_DEPTH - 1} :
          serial_console_tx = <<[closed |-> FALSE, queue |-> [i \in 1 .. n |-> ""]]>>
    /\ sp_addr_tx = <<"addr1">>
    /\ sp_addr = <<"addr1">>
    /\ cmds_rx = <<>>
    /\ rpc = NoRpc
    /\ clock = 0
    /\ caller = NoCaller
    /\ calls = 0
    /\ obs = NoObs
    /\ tlv = NoTlv
    /\ wr = NoWrite

NextForward ==
    \/ \E command \in {AttachCommand, DetachCommand(<<>>)} : ConsoleCall(command)
    \/ \E ok \in BOOLEAN : HandleSerialConsoleAttach(ok)
    \/ \E ok \in BOOLEAN : HandleSerialConsoleDetach(ok)
    \/ \E m \in OobMessages : QueueRoom /\ HandleIncomingSideband(m)
    \/ \E m \in OobMessages, ok \in BOOLEAN : QueueRoom /\ RecvSideband(m, ok)
    \/ \E id \in {rpc.id, U32Zero}, response \in ConsoleResponses, ok \in BOOLEAN :
          RecvSpResponse("addr1", id, response, ok)
    \/ \E ok \in BOOLEAN : Timeout(ok)
    \/ Tick
    \/ ReceiverDropped

SpecForward == InitForward /\ [][NextForward]_vars

(***************************************************************************)
(* The console stream: SerialConsole messages with distinguishable data are *)
(* forwarded by the reactor, in its main loop and inside the attempts of an *)
(* attach or detach RPC, while the attached receiver calls recv.            *)
(***************************************************************************)
MaxStream == 2

ConsoleData == {"a", "b"}
StreamMessages == {[type |-> "SerialConsole", h |-> data] : data \in ConsoleData}

\* SerialConsole messages arrive while the attached channel, if it is open,
\* holds fewer than MaxStream of them.
StreamRoom ==
    IF serial_console_tx = <<>> THEN TRUE
    ELSE IF serial_console_tx[1].closed THEN TRUE
    ELSE Len(serial_console_tx[1].queue) < MaxStream

\* The reactor in its main loop with a console just attached (key 1).
InitStream == InitForward /\ serial_console_tx = NewChannel

\* AttachedSerialConsoleRecv::recv: self.rx.recv() yields the oldest queued
\* (offset, data) and recv returns Some(data); rx_offset only feeds a warning.
ConsoleRecv ==
    /\ serial_console_tx # <<>>
    /\ ~serial_console_tx[1].closed
    /\ serial_console_tx[1].queue # <<>>
    /\ serial_console_tx' =
          <<[serial_console_tx[1] EXCEPT !.queue = Tail(@)]>>
    /\ obs' = [obs EXCEPT !.fwd = "", !.hp2 = <<>>, !.sc = <<>>,
                          !.rcv = <<Head(serial_console_tx[1].queue)>>]
    /\ UNCHANGED <<cfg, pc, message_id, most_recent_host_phase2_request,
                   serial_console_connection_key, sp_addr_tx, sp_addr, cmds_rx,
                   rpc, clock, caller, calls, tlv, wr>>

NextStream ==
    \/ \E command \in {AttachCommand, DetachCommand(<<>>)} : ConsoleCall(command)
    \/ \E ok \in BOOLEAN : HandleSerialConsoleAttach(ok)
    \/ \E ok \in BOOLEAN : HandleSerialConsoleDetach(ok)
    \/ \E m \in StreamMessages : StreamRoom /\ HandleIncomingSideband(m)
    \/ \E m \in StreamMessages, ok \in BOOLEAN : StreamRoom /\ RecvSideband(m, ok)
    \/ \E id \in {rpc.id, U32Zero}, response \in ConsoleResponses, ok \in BOOLEAN :
          RecvSpResponse("addr1", id, response, ok)
    \/ \E ok \in BOOLEAN : Timeout(ok)
    \/ Tick
    \/ ConsoleRecv
    \/ ReceiverDropped

SpecStream == InitStream /\ [][NextStream]_vars

(***************************************************************************)
(* The reactor from its start, with commands of every kind: the drain loop *)
(* of initial_discovery and the host-phase-2 commands.                     *)
(***************************************************************************)
\* run(), a GetMostRecentHostPhase2Request or ClearMostRecentHostPhase2Request
\* command: answered from the slot without calling rpc_call.
HandleHostPhase2Command ==
    /\ pc = "main"
    /\ cmds_rx # <<>>
    /\ LET command == Head(cmds_rx)
       IN  /\ command.cmd \in {"GetMostRecentHostPhase2Request",
                                "ClearMostRecentHostPhase2Request"}
           /\ most_recent_host_phase2_request' =
                  IF command.cmd = "ClearMostRecentHostPhase2Request"
                  THEN <<>>
                  ELSE most_recent_host_phase2_request
           /\ obs' = ConsoleDelivered(NoObs, caller.op,
                         DrainReply(command, most_recent_host_phase2_request))
    /\ cmds_rx' = Tail(cmds_rx)
    /\ caller' = Requester(Tail(cmds_rx))
    /\ rpc' = NoRpc
    /\ clock' = 0
    /\ UNCHANGED <<cfg, pc, message_id, serial_console_tx,
                   serial_console_connection_key, sp_addr_tx, sp_addr, calls,
                   tlv, wr>>

\* The commands callers submit besides Rpc: one of each arm of the drain loop
\* (SerialConsoleKeepAlive shares the arm of SerialConsoleDetach).
Commands ==
    {AttachCommand, DetachCommand(<<>>),
     [key |-> <<>>, cmd |-> "GetMostRecentHostPhase2Request"],
     [key |-> <<>>, cmd |-> "ClearMostRecentHostPhase2Request"]}

\* The reactor task as it starts, with two attempts per RPC.
InitCommands ==
    /\ cfg \in {c \in Configs : c.max_attempts_per_rpc = 2}
    /\ message_id = U32Zero
    /\ InitReactor

NextCommands ==
    \/ \E ok \in BOOLEAN : InitialDiscovery(ok)
    \/ DrainCommand
    \/ DrainDone
    \/ \E ok \in BOOLEAN : HandleCommand(ok)
    \/ HandleHostPhase2Command
    \/ \E ok \in BOOLEAN : HandleSerialConsoleAttach(ok)
    \/ \E ok \in BOOLEAN : HandleSerialConsoleDetach(ok)
    \/ \E m \in OobMessages : QueueRoom /\ HandleIncomingSideband(m)
    \/ \E m \in OobMessages, ok \in BOOLEAN : QueueRoom /\ RecvSideband(m, ok)
    \/ \E id \in {rpc.id, U32Zero}, response \in SpResponses, ok \in BOOLEAN :
          RecvSpResponse("addr1", id, response, ok)
    \/ \E ok \in BOOLEAN : Timeout(ok)
    \/ Tick
    \/ FacadeCall(Op("state", ""))
    \/ \E command \in Commands : ConsoleCall(command)

SpecCommands == InitCommands /\ [][NextCommands]_vars

(***************************************************************************)
(* Properties of rpc_call and rpc_call_one_attempt, stated for SpecRpc.    *)
(***************************************************************************)
Returned == rpc.result # <<>>
ReturnedErr(tag) == Returned /\ ~rpc.result[1].ok /\ rpc.result[1].err.tag = tag
ReturnedOk == Returned /\ rpc.result[1].ok
SelfReset(kind) ==
    \/ kind.tag = "ResetComponentTrigger" /\ kind.component = "SP_ITSELF"
    \/ kind.tag = "ResetTrigger"

\* Steps of an attempt, as the observer sees them.
TimerStep == pc = "rpc_select" /\ rpc' # rpc /\ obs'.ended = "timeout"
MismatchStep == pc = "rpc_select" /\ rpc' # rpc /\ obs'.ended = "mismatch"
ReplyStep == pc = "rpc_select" /\ rpc' # rpc /\ obs'.ended = "reply"
BusyStep == pc = "rpc_select" /\ obs'.busy = obs.busy + 1
SpResponseStep ==
    \/ BusyStep
    \/ pc = "rpc_select" /\ rpc' # rpc /\ obs'.ended \in {"mismatch", "reply", "sp_error"}
AttemptReturnedNone ==
    \/ rpc'.attempt = rpc.attempt + 1
    \/ rpc'.result = <<Err(CommErr("ExhaustedNumAttempts", "", cfg.max_attempts_per_rpc))>>

\* C1: while an attempt has received no SpResponse, however many
\* HostPhase2Request and SerialConsole messages it has received, its request
\* has been transmitted exactly once and its deadline is the moment of that
\* transmission plus the per-attempt timeout; and every step that changes the
\* call without an SpResponse arriving is the timer's, taken no earlier than
\* that deadline, and ends the attempt with Ok(None).
C1_OneSendOneDeadline ==
    (pc = "rpc_select" /\ obs.att_resp = 0) =>
        /\ obs.att_sends = 1
        /\ rpc.deadline = obs.att_first_sent + cfg.per_attempt_timeout
C1_OnlyTimerEnds ==
    (pc = "rpc_select" /\ obs.att_resp = 0 /\ rpc' # rpc /\ ~SpResponseStep) =>
        /\ obs'.ended = "timeout"
        /\ clock >= obs.att_first_sent + cfg.per_attempt_timeout
        /\ obs.att_sends = 1
        /\ AttemptReturnedNone
C1_OobNeitherResendsNorResets ==
    [](C1_OneSendOneDeadline) /\ [][C1_OnlyTimerEnds]_vars

\* An attempt that saw only out-of-band messages, MaxOob of them or more, and
\* timed out at its original deadline after one transmission.
C1_Witness ==
    /\ ReturnedErr("ExhaustedNumAttempts")
    /\ obs.ended = "timeout"
    /\ obs.att_resp = 0
    /\ obs.att_oob = MaxOob
    /\ obs.att_sends = 1
    /\ clock = obs.att_first_sent + cfg.per_attempt_timeout

\* C2, the part about Busy: a matching Error(Busy) leaves the attempt number
\* as it is and the call running (or failed by the resend's transport error),
\* a matching non-error reply is returned as the call's Ok result without
\* changing the attempt number, and a call whose every transmission after the
\* first answered a Busy returns from attempt 1.
C2_BusyKeepsAttempt ==
    BusyStep =>
        /\ rpc'.attempt = rpc.attempt
        /\ rpc'.id = rpc.id
        /\ \/ rpc'.result = <<>> /\ pc' = "rpc_select"
           \/ rpc'.result = <<Err(CommErr("SendTo", "", 0))>>
C2_ReplyReturned ==
    ReplyStep =>
        /\ rpc'.attempt = rpc.attempt
        /\ rpc'.result # <<>>
        /\ rpc'.result[1].ok
        /\ rpc'.result[1].resp.tag \notin {"Error", ""}
C2_OneAttempt ==
    (ReturnedOk /\ obs.sends = obs.busy + 1) => rpc.attempt = 1

\* C2 as amended: the above, and the attempt number grows only by one and
\* only when the timer fires (no earlier than the deadline) or an SpResponse
\* with another id arrives.
C2_AttemptConsumedByTimerOrMismatch ==
    (pc = "rpc_select" /\ rpc'.attempt # rpc.attempt) =>
        /\ rpc'.attempt = rpc.attempt + 1
        /\ \/ TimerStep /\ clock >= rpc.deadline
           \/ MismatchStep
C2_BusyConsumesNoAttempt ==
    /\ [](C2_OneAttempt)
    /\ [][C2_BusyKeepsAttempt /\ C2_ReplyReturned
            /\ C2_AttemptConsumedByTimerOrMismatch]_vars

\* C2 as stated: the above, with timer expiry the only thing that consumes an
\* attempt.
C2_AttemptConsumedByTimerOnly ==
    (pc = "rpc_select" /\ rpc'.attempt # rpc.attempt) =>
        /\ rpc'.attempt = rpc.attempt + 1
        /\ TimerStep /\ clock >= rpc.deadline
C2_AsStated ==
    /\ [](C2_OneAttempt)
    /\ [][C2_BusyKeepsAttempt /\ C2_ReplyReturned
            /\ C2_AttemptConsumedByTimerOnly]_vars

\* MaxBusy Busy replies, then a reply, with a budget of one attempt.
C2_Witness ==
    /\ ReturnedOk
    /\ obs.busy = MaxBusy
    /\ obs.sends = MaxBusy + 1
    /\ rpc.attempt = 1
    /\ cfg.max_attempts_per_rpc = 1
    /\ rpc.kind.tag = "SpState"

\* C4: an SpResponse with another id is never the call's result: the step
\* that takes it either begins the next attempt (one more, within the budget)
\* by sending the same id again, or returns ExhaustedNumAttempts when the
\* attempt was the last of max_attempts, or returns the transport error of the
\* next attempt's send; and ExhaustedNumAttempts is returned only from the
\* last of max_attempts attempts.
C4_MismatchEndsAttemptOnly ==
    MismatchStep =>
        /\ rpc'.id = rpc.id
        /\ \/ /\ rpc'.result = <<>>
              /\ pc' = "rpc_select"
              /\ rpc.attempt < rpc.max_attempts
              /\ rpc'.attempt = rpc.attempt + 1
              /\ obs'.sends = obs.sends + 1
              /\ obs'.ids = {rpc.id}
           \/ /\ rpc'.result =
                    <<Err(CommErr("ExhaustedNumAttempts", "", cfg.max_attempts_per_rpc))>>
              /\ rpc.attempt = rpc.max_attempts
              /\ rpc'.attempt = rpc.attempt
           \/ /\ rpc'.result = <<Err(CommErr("SendTo", "", 0))>>
              /\ rpc.attempt < rpc.max_attempts
C4_ExhaustedAtBudget ==
    ReturnedErr("ExhaustedNumAttempts") => rpc.attempt = rpc.max_attempts
C4_MismatchedIdNeverReturned ==
    [](C4_ExhaustedAtBudget) /\ [][C4_MismatchEndsAttemptOnly]_vars

\* A budget of three attempts, each ended by an SpResponse with another id.
C4_Witness ==
    /\ ReturnedErr("ExhaustedNumAttempts")
    /\ obs.ended = "mismatch"
    /\ rpc.kind.tag = "SpState"
    /\ rpc.attempt = 3
    /\ obs.sends = 3
    /\ obs.ids = {rpc.id}
    /\ clock = 0

\* C6 as stated: a self-reset call that received no matching reply returns
\* ExhaustedNumAttempts no earlier than SP_RESET_TIME_ALLOWED after its first
\* transmission (the clock of a call starts at its first transmission).
C6_AsStated ==
    (ReturnedErr("ExhaustedNumAttempts") /\ SelfReset(rpc.kind) /\ obs.busy = 0) =>
        clock >= SP_RESET_TIME_ALLOWED

\* C7: reset_component_trigger(component) whose rpc failed with the SP error
\* ResetComponentTriggerWithoutPrepare returns Ok exactly when component is
\* SP_ITSELF, and otherwise returns that error.
WithoutPrepare == Err(CommErr("SpError", "ResetComponentTriggerWithoutPrepare", 0))
C7_WithoutPrepareIsSuccessForSpItself ==
    \A i \in 1 .. Len(obs.facade) :
        LET f == obs.facade[i]
        IN  (f.op.name = "reset_component_trigger" /\ f.response = WithoutPrepare) =>
                /\ f.result.ok <=> f.op.component = "SP_ITSELF"
                /\ f.op.component # "SP_ITSELF" => f.result = FErr(WithoutPrepare.err)

\* The RoT's reset trigger answered with ResetComponentTriggerWithoutPrepare.
C7_Witness ==
    /\ obs.facade # <<>>
    /\ obs.facade[1].op = Op("reset_component_trigger", "ROT")
    /\ obs.facade[1].response = WithoutPrepare
    /\ ~obs.facade[1].result.ok

(***************************************************************************)
(* Properties stated for SpecIdWrap, SpecAttempts and SpecTlv.             *)
(***************************************************************************)
\* C3 as stated: every transmission of a call carries the call's id; the
\* message_id changes only at the entry of an rpc_call; and every entry of an
\* rpc_call leaves message_id greater than it was (so greater than every
\* earlier call's id).
C3_OneIdPerCall == obs.ids \subseteq {rpc.id}
C3_OnlyAtEntry == message_id' # message_id => calls' = calls + 1
C3_Greater == calls' # calls => U32Less(message_id, message_id')
C3_AsStated ==
    [](C3_OneIdPerCall) /\ [][C3_OnlyAtEntry /\ C3_Greater]_vars

\* C5: the attempts rpc_call allows itself are, for ResetComponentTrigger of
\* SP_ITSELF and for ResetTrigger, the least n with
\* n * max(1, timeout in whole ms) >= 30000 (150 for 200 ms), and for every
\* other request max_attempts_per_rpc.
IsCeilDiv(n, a, b) == n * b >= a /\ (n - 1) * b < a
IsPrefix(p, q) == Len(p) <= Len(q) /\ SubSeq(q, 1, Len(p)) = p
C8_WithinTotal ==
    (tlv.first # <<>> /\ tlv.first[1].total <= TLV_RPC_TOTAL_ITEMS_DOS_LIMIT) =>
        /\ Len(tlv.entries) <= tlv.first[1].total
        /\ (tlv.result # <<>> /\ tlv.result[1].ok) =>
                Len(tlv.result[1].val) = tlv.first[1].total
C8_NeverDecreases == IsPrefix(tlv.entries, tlv'.entries)
C8_ExactlyTotalItems == [](C8_WithinTotal) /\ [][C8_NeverDecreases]_vars

\* A query of MaxTotal items collected over more than one page.
C8_Witness ==
    /\ tlv.result # <<>>
    /\ tlv.result[1].ok
    /\ Len(tlv.result[1].val) = MaxTotal
    /\ tlv.first[1].total = MaxTotal
    /\ tlv.rpcs >= 2

\* C9 as stated: a first page declaring more than 1024 items ends the query
\* with "too many items", after one request and with nothing collected.
C9_AsStated ==
    (tlv.first # <<>> /\ tlv.first[1].total > TLV_RPC_TOTAL_ITEMS_DOS_LIMIT) =>
        /\ tlv.result = <<TlvErr("too many items")>>
        /\ tlv.rpcs = 1
        /\ tlv.entries = <<>>

\* C10 as stated: a page after the first whose total is not the first page's
\* ends the query with "total item count changed".
LaterPageWithOtherTotal ==
    /\ tlv.rpcs >= 2
    /\ tlv.last # <<>>
    /\ tlv.last # tlv.first
    /\ tlv.last[1].total # tlv.first[1].total
C10_AsStated ==
    LaterPageWithOtherTotal => tlv.result = <<TlvErr("total item count changed")>>

\* C10 as amended: such a page ends the query with "total item count changed"
\* when its offset is the one requested, and with "unexpected offset from SP"
\* when it is not; either way no collected item is returned.
C10_TotalChangedAfterOffsetCheck ==
    LaterPageWithOtherTotal =>
        /\ tlv.last[1].offset = tlv.offset =>
                tlv.result = <<TlvErr("total item count changed")>>
        /\ tlv.last[1].offset # tlv.offset =>
                tlv.result = <<TlvErr("unexpected offset from SP")>>
        /\ tlv.result # <<>> /\ tlv.result[1].val = <<>>

\* The second page, at the requested offset, declares another total after one
\* item was collected.
C10_Witness ==
    /\ LaterPageWithOtherTotal
    /\ tlv.rpcs = 2
    /\ tlv.last[1].offset = tlv.offset
    /\ Len(tlv.entries) = 1
    /\ tlv.result = <<TlvErr("total item count changed")>>

\* Steps of a paginated query: a request is issued; its page header arrives.
TlvRequestStep == tlv'.rpcs = tlv.rpcs + 1
TlvPageStep ==
    /\ TlvRequestStep
    /\ tlv'.last # <<>>
    /\ tlv'.result = <<>> \/ tlv'.result[1].err \notin RpcFailureReasons
NoProgressErr == TlvErr("failed to parse any entries from SP response")
OverReportedErr == TlvErr("SP returned more entries than its reported total")

\* C11 as stated: a drained page that added nothing to a query with T > 0 ends
\* the query with the no-progress error, no offset is requested twice, and a
\* first page (at offset 0) declaring T = 0 whose data holds nothing the
\* parser knows leads to Ok with an empty list after one request.
C11_NoProgressFails ==
    (/\ tlv.pc = "decode" /\ tlv.data = <<>> /\ tlv.total > 0
     /\ Len(tlv.entries) = tlv.offset) =>
        tlv'.result = <<NoProgressErr>> /\ tlv'.rpcs = tlv.rpcs
C11_NoOffsetTwice ==
    (TlvRequestStep /\ tlv.rpcs >= 1) => tlv'.offset > tlv.offset
C11_EmptyTotal ==
    (/\ tlv.pc = "decode" /\ tlv.total = 0 /\ tlv.data # <<>>
     /\ Head(tlv.data) = "unknown") => tlv'.result = <<>>
C11_EmptyTotalOk ==
    (tlv.result # <<>> /\ tlv.result[1].ok /\ tlv.first[1].total = 0) =>
        tlv.result[1].val = <<>> /\ tlv.rpcs = 1
C11_AsStated ==
    /\ [](C11_EmptyTotalOk)
    /\ [][C11_NoProgressFails /\ C11_NoOffsetTwice /\ C11_EmptyTotal]_vars

\* C12: each request's offset is the number of entries collected when it is
\* issued (0 for the first), and a page whose offset is another number ends
\* the query with "unexpected offset from SP".
C12_RequestCarriesCount ==
    TlvRequestStep =>
        /\ tlv'.offset = Len(tlv.entries)
        /\ tlv.rpcs = 0 => tlv'.offset = 0
C12_OtherOffsetFails ==
    (TlvPageStep /\ tlv'.last[1].offset # Len(tlv.entries)) =>
        tlv'.result = <<TlvErr("unexpected offset from SP")>>
C12_OffsetIsItemCount ==
    [][C12_RequestCarriesCount /\ C12_OtherOffsetFails]_vars

\* The second request, after one item, answered by a page at offset 0.
C12_Witness ==
    /\ tlv.rpcs = 2
    /\ tlv.offset = 1
    /\ Len(tlv.entries) = 1
    /\ tlv.last = <<[offset |-> 0, total |-> tlv.first[1].total]>>
    /\ tlv.result = <<TlvErr("unexpected offset from SP")>>

\* C13 as stated: a chunk with an unknown tag leaves the query running and the
\* entries as they are, and the over-reported error is returned only for a
\* chunk that would add an item beyond the declared total.
C13_UnknownSkipped ==
    (tlv.pc = "decode" /\ tlv.data # <<>> /\ Head(tlv.data) = "unknown") =>
        tlv'.result = <<>> /\ tlv'.entries = tlv.entries
C13_OverReportedOnlyBeyondTotal ==
    (tlv.result = <<>> /\ tlv'.result = <<OverReportedErr>>) =>
        Head(tlv.data) = "item" /\ Len(tlv.entries) + 1 > tlv.total
C13_AsStated ==
    [][C13_UnknownSkipped /\ C13_OverReportedOnlyBeyondTotal]_vars

(***************************************************************************)
(* Properties of AttachedSerialConsoleSend::write, stated for SpecWrite    *)
(* and SpecWriteFair.                                                      *)
(***************************************************************************)
\* A step in which an ack answers the request in flight.
AckStep == wr.pc = "await" /\ wr'.ack # <<>>
\* The ack of that step is within tx_offset ..= tx_offset + bytes sent.
AckInRange ==
    /\ wr'.ack[1] >= wr.tx_offset
    /\ wr'.ack[1] - wr.tx_offset <= wr.req[1].len
CursorEmpty(w) == w.pos >= w.len

\* C14: at the top of every loop iteration of write the cursor position is
\* tx_offset minus tx_offset at entry; an ack within range is accepted, moves
\* tx_offset to its count, and the write returns Ok exactly when the counts
\* accepted sum to the length of the data; on Ok the cursor is empty and
\* tx_offset has advanced by exactly that length.
C14_CursorTracksOffset ==
    wr.pc = "loop" => wr.pos = wr.tx_offset - wr.tx_offset0
C14_OkMeansAllAccepted ==
    wr.result = <<WrOk>> =>
        /\ CursorEmpty(wr)
        /\ wr.tx_offset = wr.tx_offset0 + wr.len
C14_AckInRangeAccepted ==
    (AckStep /\ AckInRange) =>
        /\ wr'.tx_offset = wr'.ack[1]
        /\ IF wr'.ack[1] = wr.tx_offset0 + wr.len
           THEN wr'.pc = "done" /\ wr'.result = <<WrOk>>
           ELSE wr'.pc = "loop" /\ wr'.result = <<>>
C14_WriteCompletes ==
    /\ [](C14_CursorTracksOffset /\ C14_OkMeansAllAccepted)
    /\ [][C14_AckInRangeAccepted]_vars
C14_Witness ==
    /\ wr.result = <<WrOk>>
    /\ wr.len = 3 /\ wr.capacity = 3 /\ wr.rpcs = 2
    /\ wr.tx_offset0 = 5 /\ wr.tx_offset = 8

\* C15: an ack whose count is below tx_offset, or above tx_offset plus the
\* bytes sent in that RPC, makes write fail with BogusSerialConsoleState and
\* leaves tx_offset as it was before the RPC.
C15_AckOutOfRangeStep ==
    (AckStep /\ ~AckInRange) =>
        /\ wr'.pc = "done"
        /\ wr'.result = <<WrErr("BogusSerialConsoleState")>>
        /\ wr'.tx_offset = wr.tx_offset
C15_BogusAckFails == [][C15_AckOutOfRangeStep]_vars
C15_Witness ==
    /\ wr.result = <<WrErr("BogusSerialConsoleState")>>
    /\ wr.rpcs = 2
    /\ wr.ack[1] = wr.tx_offset + wr.req[1].len + 1
    /\ wr.tx_offset = wr.tx_offset0 + 1

\* C16 as stated: where every RPC issued returns, a call of write eventually
\* returns (Ok or Err), whatever acks the SP sends.
C16_AsStated == (wr.pc = "loop") ~> (wr.result # <<>>)

\* The partial-ack scenario: 600 bytes written from tx_offset 0, the first
\* packet carried 512 of them and the SP's ack accepted 400.
C17_FirstSent ==
    /\ wr.len = 600 /\ wr.capacity = 512 /\ wr.tx_offset0 = 0
    /\ wr.rpcs = 1 /\ wr.req = <<[len |-> 512, offset |-> 0]>>
C17_Accepted400 == C17_FirstSent /\ wr.pc = "loop" /\ wr.ack = <<400>>

\* C17 as stated: in the scenario the next write RPC carries offset 400 with
\* 312 trailing bytes.
C17_AsStated ==
    [][C17_Accepted400 => wr'.req = <<[len |-> 312, offset |-> 400]>>]_vars

\* C17: in the scenario the writer rewinds 112 bytes (from 512 to 400), the
\* next write RPC carries offset 400 with the 200 bytes that remain, and on
\* the full ack (600) tx_offset is 600, the cursor is empty and write
\* returns Ok.
C17_Rewinds112 ==
    (C17_FirstSent /\ wr.pc = "await" /\ wr'.ack = <<400>>) =>
        wr.pos = 512 /\ wr'.pos = wr.pos - 112 /\ wr'.tx_offset = 400
C17_NextCarries200 ==
    C17_Accepted400 => wr'.req = <<[len |-> 200, offset |-> 400]>>
C17_FullAck ==
    (/\ wr.len = 600 /\ wr.capacity = 512 /\ wr.tx_offset0 = 0 /\ wr.rpcs = 2
     /\ wr.req = <<[len |-> 200, offset |-> 400]>>
     /\ wr.pc = "await" /\ wr'.ack = <<600>>) =>
        wr'.tx_offset = 600 /\ CursorEmpty(wr') /\ wr'.result = <<WrOk>>
C17_PartialAckScenario ==
    [][C17_Rewinds112 /\ C17_NextCarries200 /\ C17_FullAck]_vars
C17_Witness ==
    /\ wr.len = 600 /\ wr.capacity = 512 /\ wr.tx_offset0 = 0 /\ wr.rpcs = 2
    /\ wr.req = <<[len |-> 200, offset |-> 400]>>
    /\ wr.ack = <<600>> /\ wr.tx_offset = 600 /\ wr.result = <<WrOk>>

(***************************************************************************)
(* Properties of the console attach and detach commands, stated for        *)
(* SpecConsole.                                                            *)
(***************************************************************************)
\* A step in which handle_command takes the command at the head of the queue.
CommandTaken(cmd) ==
    /\ pc = "main"
    /\ cmds_rx # <<>>
    /\ Head(cmds_rx).cmd = cmd
    /\ cmds_rx' # cmds_rx
\* A step in which the reply to a command `cmd` is sent to its requester.
CommandReplied(cmd) ==
    /\ caller.pc = "waiting"
    /\ caller.op.cmd = cmd
    /\ caller' = NoCaller
\* The reply of such a step.
Reply == obs'.facade[1].result
\* The step sends no packet and leaves the console state and the id alone.
NoPacketNoChange ==
    /\ pc' = "main"
    /\ obs'.sends = 0
    /\ message_id' = message_id
    /\ serial_console_tx' = serial_console_tx
    /\ serial_console_connection_key' = serial_console_connection_key
\* The step is the return of an rpc_call with the response `tag`.
RpcReturnedAck(tag) ==
    /\ pc = "rpc_select"
    /\ rpc'.result # <<>>
    /\ rpc'.result[1].ok
    /\ rpc'.result[1].resp.tag = tag

\* C18: an attach taken while a sender is held is answered
\* SerialConsoleAlreadyAttached without a packet; otherwise the attach RPC is
\* issued, and the reply is a key exactly when the RPC returned the attach
\* ack: then a new channel is installed and the key is the previous
\* connection key plus one; in every other case the sender slot and the key
\* are as before (the slot empty after a failed RPC).  The key changes in no
\* other step, and never more than one sender is held.
C18_AlreadyAttached ==
    (CommandTaken("SerialConsoleAttach") /\ serial_console_tx # <<>>) =>
        /\ caller' = NoCaller
        /\ ~Reply.ok
        /\ Reply.err = CommErr("SpError", "SerialConsoleAlreadyAttached", 0)
        /\ NoPacketNoChange
C18_AttachIssuesRpc ==
    (CommandTaken("SerialConsoleAttach") /\ serial_console_tx = <<>>) =>
        /\ message_id' = U32Succ(message_id)
        /\ rpc'.kind = Kind("SerialConsoleAttach", ConsoleComponent)
        /\ serial_console_tx' = <<>>
        /\ serial_console_connection_key' = serial_console_connection_key
C18_AttachReply ==
    CommandReplied("SerialConsoleAttach") =>
        IF Reply.ok
        THEN /\ RpcReturnedAck("SerialConsoleAttachAck")
             /\ Reply.val = serial_console_connection_key + 1
             /\ serial_console_connection_key' = serial_console_connection_key + 1
             /\ serial_console_tx = <<>>
             /\ serial_console_tx' = NewChannel
        ELSE /\ ~RpcReturnedAck("SerialConsoleAttachAck")
             /\ serial_console_connection_key' = serial_console_connection_key
             /\ serial_console_tx' = serial_console_tx
             /\ pc = "rpc_select" => serial_console_tx' = <<>>
C18_KeyOnlyByAttach ==
    serial_console_connection_key' # serial_console_connection_key =>
        CommandReplied("SerialConsoleAttach") /\ Reply.ok
C18_AttachContract ==
    /\ [](Len(serial_console_tx) <= 1)
    /\ [][/\ C18_AlreadyAttached
          /\ C18_AttachIssuesRpc
          /\ C18_AttachReply
          /\ C18_KeyOnlyByAttach]_vars
C18_Witness ==
    /\ obs.facade # <<>>
    /\ obs.facade[1].op = AttachCommand
    /\ obs.facade[1].result.ok
    /\ obs.facade[1].result.val = 2
    /\ serial_console_connection_key = 2
    /\ serial_console_tx = NewChannel
    /\ calls = 2

\* C19: a detach carrying a key other than the current connection key is
\* answered Ok without a packet and without a change of the sender slot, the
\* connection key or the message id.
C19_StaleDetachStep ==
    (/\ CommandTaken("SerialConsoleDetach")
     /\ Head(cmds_rx).key # <<>>
     /\ Head(cmds_rx).key # <<serial_console_connection_key>>) =>
        /\ caller' = NoCaller
        /\ Reply = FOk("")
        /\ NoPacketNoChange
C19_StaleDetachIsNoOp == [][C19_StaleDetachStep]_vars
C19_Witness ==
    /\ obs.facade # <<>>
    /\ obs.facade[1].op = DetachCommand(<<1>>)
    /\ obs.facade[1].result = FOk("")
    /\ serial_console_connection_key = 2
    /\ serial_console_tx = NewChannel
    /\ message_id = <<0, 2>>
    /\ pc = "main"

\* C20 as stated: a detach carrying no key, or the current connection key,
\* issues the detach RPC, and once it has been answered no sender is held.
C20_DetachIssuesRpc ==
    (/\ CommandTaken("SerialConsoleDetach")
     /\ Head(cmds_rx).key \in {<<>>, <<serial_console_connection_key>>}) =>
        /\ message_id' = U32Succ(message_id)
        /\ rpc'.kind = Kind("SerialConsoleDetach", "")
C20_NoSenderAfterDetach ==
    (/\ CommandReplied("SerialConsoleDetach")
     /\ caller.op.key \in {<<>>, <<serial_console_connection_key>>}) =>
        serial_console_tx' = <<>>
C20_AsStated == [][C20_DetachIssuesRpc /\ C20_NoSenderAfterDetach]_vars

(***************************************************************************)
(* Properties of forward_serial_console, stated for SpecForward.           *)
(***************************************************************************)
\* A step in which forward_serial_console tried to send on the channel.
ForwardStep == obs'.fwd # "" /\ obs' # obs
Attached == serial_console_tx # <<>>
QueueFull ==
    /\ Attached
    /\ Len(serial_console_tx[1].queue) = SERIAL_CONSOLE_CHANNEL_DEPTH

\* C21: the console channel never holds more than 32 entries; a SerialConsole
\* message forwarded while an open channel holds 32 is discarded: the queue
\* is unchanged and the sender stays; below 32 the message is queued.
C21_FullDrops ==
    (ForwardStep /\ Attached /\ ~serial_console_tx[1].closed) =>
        IF QueueFull
        THEN obs'.fwd = "full" /\ serial_console_tx' = serial_console_tx
        ELSE /\ obs'.fwd = "sent"
             /\ serial_console_tx' # <<>>
             /\ Len(serial_console_tx'[1].queue) = Len(serial_console_tx[1].queue) + 1
C21_NeverBlocksNeverOverfills ==
    /\ [](Attached => Len(serial_console_tx[1].queue) <= SERIAL_CONSOLE_CHANNEL_DEPTH)
    /\ [][C21_FullDrops]_vars
C21_Witness ==
    /\ obs.fwd = "full"
    /\ QueueFull
    /\ ~serial_console_tx[1].closed
    /\ pc = "main"

\* C22: a SerialConsole message forwarded after the receiver was dropped
\* clears the sender slot, inside an attempt or in the main loop, and sends
\* nothing; an attach taken afterwards issues the attach RPC.
C22_ClosedClears ==
    (ForwardStep /\ Attached /\ serial_console_tx[1].closed) =>
        /\ obs'.fwd = "closed"
        /\ serial_console_tx' = <<>>
        /\ message_id' = message_id
        /\ obs'.sends = IF pc = "rpc_select" THEN obs.sends ELSE 0
        /\ pc' = pc
C22_AttachProceeds ==
    (/\ pc = "main"
     /\ cmds_rx # <<>>
     /\ Head(cmds_rx).cmd = "SerialConsoleAttach"
     /\ cmds_rx' # cmds_rx
     /\ serial_console_tx = <<>>) =>
        /\ message_id' = U32Succ(message_id)
        /\ rpc'.kind = Kind("SerialConsoleAttach", ConsoleComponent)
C22_DroppedReceiverClearsSender == [][C22_ClosedClears /\ C22_AttachProceeds]_vars
C22_Witness ==
    /\ pc = "rpc_select"
    /\ obs.fwd = "closed"
    /\ serial_console_tx = <<>>
    /\ obs.sends = 1


(***************************************************************************)
(* Facade methods over the reactor from its start: the caboose readers and *)
(* set_ipcc_key_lookup_value, whose data travels in a cursor.  wr.capacity  *)
(* is MIN_TRAILING_DATA_LEN, the trailing bytes every packet has room for; *)
(* wr.len and wr.pos are the cursor, wr.result what the method returned    *)
(* without sending a command.                                              *)
(***************************************************************************)
\* Variant: the value is compared with one byte more than a packet holds.
IpccValueTooLarge_off_by_one(len, min_trailing_data_len) ==
    len > min_trailing_data_len + 1

\* set_ipcc_key_lookup_value: `data.len() > MIN_TRAILING_DATA_LEN`
IpccValueTooLarge(len, min_trailing_data_len) == len > min_trailing_data_len

\* set_ipcc_key_lookup_value(key, data) with data of `len` bytes, up to the
\* early return or the send of its command.
SetIpccCall(len) ==
    /\ caller.pc = "idle"
    /\ wr.pc = "idle"
    /\ pc # "panicked"
    /\ IF IpccValueTooLarge(len, wr.capacity)
       THEN /\ wr' = [wr EXCEPT !.pc = "done", !.len = len,
                                !.result = <<WrErr("IpccKeyLookupValueTooLarge")>>]
            /\ UNCHANGED <<cmds_rx, caller, rpc, obs, clock>>
       ELSE /\ calls < MaxCalls
            /\ Len(cmds_rx) < CMDS_CHANNEL_DEPTH
            /\ wr' = [wr EXCEPT !.pc = "await", !.len = len, !.pos = 0]
            /\ cmds_rx' = Append(cmds_rx,
                   [kind |-> RequestOf(Op("set_ipcc_key_lookup_value", "")),
                    cmd |-> "Rpc"])
            /\ caller' = [pc |-> "waiting", op |-> Op("set_ipcc_key_lookup_value", "")]
            /\ Settle
    /\ UNCHANGED <<cfg, pc, message_id, most_recent_host_phase2_request,
                   serial_console_tx, serial_console_connection_key, sp_addr_tx,
                   sp_addr, calls, tlv>>

InitFacade ==
    /\ cfg \in {c \in Configs : c.max_attempts_per_rpc = 2}
    /\ message_id = U32Zero
    /\ pc = "start"
    /\ most_recent_host_phase2_request = <<>>
    /\ serial_console_tx = <<>>
    /\ serial_console_connection_key = 0
    /\ sp_addr_tx = <<>>
    /\ sp_addr = <<>>
    /\ cmds_rx = <<>>
    /\ rpc = NoRpc
    /\ clock = 0
    /\ caller = NoCaller
    /\ calls = 0
    /\ obs = NoObs
    /\ tlv = NoTlv
    /\ \E capacity \in 1 .. MaxData : wr = [NoWrite EXCEPT !.capacity = capacity]

\* The SP answers with one of six SpResponse variants; it is taken to be busy
\* only for a SetIpccKeyLookupValue request.
NextFacade ==
    \/ \E ok \in BOOLEAN : InitialDiscovery(ok)
    \/ DrainCommand
    \/ DrainDone
    \/ \E ok \in BOOLEAN : HandleCommand(ok)
    \/ \E id \in {rpc.id, U32Zero}, ok \in BOOLEAN,
          response \in {Busy, Resp("Error", "RequestUnsupportedForSp"),
                        Resp("SpState", "v2"), Resp("CabooseValue", ""),
                        Resp("SetIpccKeyLookupValueAck", ""), Resp("Discover", "")} :
          /\ response = Busy => CarriesCursor(rpc.kind)
          /\ RecvSpResponse("addr1", id, response, ok)
    \/ \E ok \in BOOLEAN : Timeout(ok)
    \/ Tick
    \/ \E op \in CabooseOps \cup {Op("state", "")} : FacadeCall(op)
    \/ \E len \in 0 .. MaxData + 1 : SetIpccCall(len)

SpecFacade == InitFacade /\ [][NextFacade]_vars

(***************************************************************************)
(* C23: the commands drained between two attempts of initial discovery.    *)
(***************************************************************************)
\* A step of the drain loop of initial_discovery that answers a command.
DrainStep ==
    /\ pc = "discovery_drain"
    /\ cmds_rx # <<>>
    /\ cmds_rx' = Tail(cmds_rx)
    /\ obs'.facade # <<>>

\* C23: while no SP has been discovered, every command drained from the
\* command channel between discovery attempts is failed with NoSpDiscovered,
\* whatever its kind.
C23_AsStated ==
    [][DrainStep =>
          /\ ~obs'.facade[1].result.ok
          /\ obs'.facade[1].result.err.tag = "NoSpDiscovered"]_vars

(***************************************************************************)
(* C24: nothing but Discover before the first discovery.                   *)
(***************************************************************************)
\* A step that sends a request packet on the socket.
SendStep ==
    \/ obs'.sends = obs.sends + 1
    \/ calls' = calls + 1 /\ obs'.sends = 1

\* No request other than Discover has been issued while no address is published.
C24_NoOtherRequest ==
    sp_addr_tx = <<>> => rpc.kind \in {NoRpc.kind, Discover}

\* C24: before the first successful discovery every packet sent is a Discover
\* request, whatever commands are queued: a step that sends while the
\* published address is unset sends Discover, and no rpc_call is entered with
\* another request.
C24_OnlyDiscoverBeforeAddress ==
    /\ [](C24_NoOtherRequest)
    /\ [][sp_addr_tx = <<>> /\ (SendStep \/ calls' # calls)
             => rpc'.kind = Discover \/ pc' = "panicked"]_vars

\* A Discover request has been resent with an Rpc command waiting in the
\* command channel and no address published.
C24_Witness ==
    /\ sp_addr_tx = <<>>
    /\ pc = "rpc_select"
    /\ rpc.kind = Discover
    /\ obs.sends >= 2
    /\ cmds_rx # <<>>
    /\ caller.pc = "waiting"

(***************************************************************************)
(* C25: the published address once it is set.                              *)
(***************************************************************************)
\* The reactor is in initial_discovery.
Discovering ==
    \/ pc \in {"start", "discovery_drain", "discovery_sleep"}
    \/ pc = "rpc_select" /\ rpc.ctx = "initial_discovery"

\* A step in which the rpc_call of an idle re-discovery returns.
IdleDiscoveryReturns ==
    /\ rpc'.ctx = "idle_discovery"
    /\ rpc'.result # <<>>
    /\ rpc.result = <<>> \/ calls' # calls

\* The published address is never cleared, and the reactor stays out of
\* initial_discovery.
C25_NeverCleared ==
    /\ sp_addr_tx # <<>> => sp_addr_tx' # <<>>
    /\ sp_addr_tx # <<>> => ~Discovering'

\* An idle re-discovery that fails leaves the address; one that succeeds
\* publishes its peer.  Either way the main loop goes on with the commands
\* that are waiting.
C25_IdleDiscovery ==
    IdleDiscoveryReturns =>
        /\ IF rpc'.result[1].ok /\ rpc'.result[1].resp.tag = "Discover"
           THEN sp_addr_tx' = <<rpc'.result[1].peer>>
           ELSE sp_addr_tx' = sp_addr_tx
        /\ pc' = "main"
        /\ cmds_rx' = cmds_rx
        /\ caller' = caller

\* A command taken from the channel enters rpc_call, and no reply is
\* NoSpDiscovered.
C25_CommandsExecuted ==
    /\ pc = "main" /\ cmds_rx # <<>> /\ cmds_rx' = Tail(cmds_rx)
          => rpc'.ctx = "cmd_rpc" \/ pc' = "panicked"
    /\ obs'.facade # <<>> => obs'.facade[1].result.err.tag # "NoSpDiscovered"

\* C25: once the published SP address is set it is never cleared and the
\* reactor never returns to discovering; a failed idle re-discovery leaves
\* the address unchanged and later commands are still executed, a successful
\* one with a different peer replaces the address.
C25_AddressOnlyReplaced ==
    [][C25_NeverCleared /\ C25_IdleDiscovery /\ C25_CommandsExecuted]_vars

\* An idle re-discovery replaced addr1 by addr2, the next one failed and left
\* addr2, and a command is waiting to be executed.
C25_Witness ==
    /\ sp_addr_tx = <<"addr2">>
    /\ rpc.ctx = "idle_discovery"
    /\ rpc.result # <<>>
    /\ ~rpc.result[1].ok
    /\ pc = "main"
    /\ calls = 2
    /\ cmds_rx # <<>>

(***************************************************************************)
(* C26: commands of several callers.                                       *)
(***************************************************************************)
\* A step in which the reactor takes a command from the channel.
TakeStep == cmds_rx # <<>> /\ Len(cmds_rx') = Len(cmds_rx) - 1

\* The channel is a queue of at most CMDS_CHANNEL_DEPTH commands: a step adds
\* one at its end or takes the one at its head.
C26_ChannelOrder ==
    \/ cmds_rx' = cmds_rx
    \/ cmds_rx # <<>> /\ cmds_rx' = Tail(cmds_rx)
    \/ /\ Len(cmds_rx') = Len(cmds_rx) + 1
       /\ Len(cmds_rx') <= CMDS_CHANNEL_DEPTH
       /\ SubSeq(cmds_rx', 1, Len(cmds_rx)) = cmds_rx

\* A command is taken only by the main loop with no rpc_call in progress, its
\* request is the one then sent, and a reply goes to the caller whose request
\* was sent.
C26_OneAtATime ==
    /\ TakeStep =>
          /\ pc = "main"
          /\ caller = Requester(cmds_rx)
          /\ pc' = "panicked" \/ rpc'.kind = Head(cmds_rx).kind
    /\ obs'.facade # <<>> /\ obs' # obs =>
          /\ obs'.facade[1].op = caller.op
          /\ RequestOf(obs'.facade[1].op) = rpc'.kind
          /\ caller' = Requester(cmds_rx')

\* An rpc_call is entered only from the main loop, and until it returns every
\* packet sent carries its request and its id.
C26_OneOutstanding ==
    /\ calls' # calls => pc = "main"
    /\ pc = "rpc_select" /\ pc' = "rpc_select" =>
          rpc'.kind = rpc.kind /\ rpc'.id = rpc.id
    /\ SendStep => obs'.ids = {rpc'.id}

\* C26: commands of any number of concurrent callers are handled one at a
\* time in the order they entered the command channel (capacity 8); no
\* command is started before the previous one has been replied to, so one RPC
\* at most is outstanding and the requests of two RPCs are never interleaved.
C26_FifoOneAtATime ==
    [][C26_ChannelOrder /\ C26_OneAtATime /\ C26_OneOutstanding]_vars

\* The second command's RPC is in flight, the channel is full behind it, and
\* the newest command differs from the one in front.
C26_Witness ==
    /\ pc = "rpc_select"
    /\ rpc.ctx = "cmd_rpc"
    /\ calls = 2
    /\ obs.sends >= 2
    /\ Len(cmds_rx) = CMDS_CHANNEL_DEPTH
    /\ cmds_rx[CMDS_CHANNEL_DEPTH].kind # cmds_rx[1].kind

(***************************************************************************)
(* C27: the host-phase-2 slot.                                             *)
(***************************************************************************)
\* A step that replies to a command of kind `cmd`.
HostPhase2Replied(cmd) ==
    /\ obs'.facade # <<>>
    /\ obs' # obs
    /\ caller.pc = "waiting"
    /\ "cmd" \in DOMAIN caller.op
    /\ caller.op.cmd = cmd

\* A step that receives a HostPhase2Request: in the main loop, or inside an
\* attempt of rpc_call.
HostPhase2Arrives == obs'.hp2 # <<>> /\ obs' # obs

\* Every HostPhase2Request received is put in the slot, whichever loop
\* receives it.
C27_ArrivalOverwrites ==
    HostPhase2Arrives => most_recent_host_phase2_request' = obs'.hp2

\* The slot changes only when a request arrives or a Clear is answered, and
\* a Clear leaves it empty.
C27_OnlyArrivalOrClear ==
    /\ most_recent_host_phase2_request' # most_recent_host_phase2_request
          => \/ HostPhase2Arrives
             \/ HostPhase2Replied("ClearMostRecentHostPhase2Request")
    /\ HostPhase2Replied("ClearMostRecentHostPhase2Request")
          => most_recent_host_phase2_request' = <<>>

\* Get is answered with the slot and leaves it as it is.
C27_GetReadsSlot ==
    HostPhase2Replied("GetMostRecentHostPhase2Request") =>
        /\ obs'.facade[1].result.ok
        /\ obs'.facade[1].result.val = most_recent_host_phase2_request
        /\ most_recent_host_phase2_request' = most_recent_host_phase2_request

\* C27: the host-phase-2 slot is latest-only.  Get returns the last
\* HostPhase2Request received since the most recent Clear (or since the
\* start), whether it arrived in the main loop or inside an RPC attempt, and
\* none if there was no such request; Get does not change the slot.
C27_LatestOnly ==
    [][C27_ArrivalOverwrites /\ C27_OnlyArrivalOrClear /\ C27_GetReadsSlot]_vars

\* Get has just been answered with h2 in the main loop, the slot still holds
\* it, and an RPC had been made since the start besides the discovery.
C27_Witness ==
    /\ pc = "main"
    /\ calls = 2
    /\ obs.facade # <<>>
    /\ "cmd" \in DOMAIN obs.facade[1].op
    /\ obs.facade[1].op.cmd = "GetMostRecentHostPhase2Request"
    /\ obs.facade[1].result.val = <<"h2">>
    /\ most_recent_host_phase2_request = <<"h2">>

(***************************************************************************)
(* C28: set_ipcc_key_lookup_value with a value that does not fit.          *)
(***************************************************************************)
\* A step in which set_ipcc_key_lookup_value is called.
SetIpccCalled == wr.pc = "idle" /\ wr'.pc # "idle"

\* A call with more than MIN_TRAILING_DATA_LEN bytes returns
\* IpccKeyLookupValueTooLarge and touches nothing else; any other call sends
\* its command.
C28_TooLargeStep ==
    SetIpccCalled =>
        IF wr'.len > wr.capacity
        THEN /\ wr'.result = <<WrErr("IpccKeyLookupValueTooLarge")>>
             /\ UNCHANGED <<cmds_rx, message_id, calls, rpc, obs, pc, caller,
                            clock>>
        ELSE /\ wr'.result = <<>>
             /\ cmds_rx' = Append(cmds_rx,
                    [kind |-> Kind("SetIpccKeyLookupValue", ""), cmd |-> "Rpc"])

\* No command and no packet ever carries such a value.
C28_NeverSent ==
    /\ \A i \in 1 .. Len(cmds_rx) :
          CarriesCursor(cmds_rx[i].kind) => wr.len <= wr.capacity
    /\ wr.len > wr.capacity => wr.rpcs = 0 /\ wr.req = <<>> /\ wr.pos = 0
    /\ CarriesCursor(rpc.kind) => wr.len <= wr.capacity

\* C28: set_ipcc_key_lookup_value with a value longer than
\* MIN_TRAILING_DATA_LEN fails with IpccKeyLookupValueTooLarge without any
\* I/O: no command is enqueued, no packet is sent, the message id is unchanged.
C28_TooLargeWithoutIo ==
    [](C28_NeverSent) /\ [][C28_TooLargeStep]_vars

\* The method has returned IpccKeyLookupValueTooLarge for a value one byte
\* too long, while the reactor was waiting in an attempt of its discovery.
C28_Witness ==
    /\ wr.result = <<WrErr("IpccKeyLookupValueTooLarge")>>
    /\ wr.len = wr.capacity + 1
    /\ pc = "rpc_select"
    /\ obs.sends = 1
    /\ cmds_rx = <<>>

(***************************************************************************)
(* C29: a successful reply of another variant than the one expected.       *)
(***************************************************************************)
\* The SpResponse variant each facade method expects.
ExpectedTag(op) ==
    CASE op.name = "state" -> "SpState"
      [] op.name \in {"get_caboose_value", "read_component_caboose"} -> "CabooseValue"
      [] op.name = "set_ipcc_key_lookup_value" -> "SetIpccKeyLookupValueAck"
      [] OTHER -> ""

\* A step in which a facade method resumes with an Ok RpcResponse whose
\* SpResponse is not of the variant it expects.
MismatchedReply ==
    /\ obs'.facade # <<>>
    /\ obs' # obs
    /\ obs'.facade[1].response.ok
    /\ obs'.facade[1].response.resp.tag # ExpectedTag(obs'.facade[1].op)

\* C29: every facade method that sends an Rpc command returns
\* BadResponseType for a successful reply of a variant it does not expect;
\* none panics or returns Ok.
C29_AsStated ==
    [][MismatchedReply =>
          /\ ~obs'.facade[1].result.ok
          /\ obs'.facade[1].result.err.tag = "BadResponseType"]_vars

(***************************************************************************)
(* C30: the cursor of an Rpc command.                                      *)
(***************************************************************************)
\* A step in which the requester of a command sent with a cursor gets its
\* reply, and the cursor with it.
CursorReturned ==
    /\ obs'.facade # <<>>
    /\ obs' # obs
    /\ CarriesCursor(RequestOf(obs'.facade[1].op))

\* The cursor moves only when rpc_call is entered with its command, and then
\* by the bytes that fit in the packet.
C30_AdvancedAtEntry ==
    /\ wr'.pos # wr.pos \/ wr'.rpcs # wr.rpcs =>
          /\ calls' = calls + 1
          /\ CarriesCursor(rpc'.kind)
          /\ wr'.rpcs = wr.rpcs + 1
    /\ calls' # calls /\ pc' # "panicked" /\ CarriesCursor(rpc'.kind) =>
          /\ wr'.pos = wr.pos + Min(wr.len - wr.pos, wr.capacity)
          /\ wr'.req = <<[len |-> wr'.pos - wr.pos, offset |-> wr.pos]>>
    /\ calls' # calls /\ ~CarriesCursor(rpc'.kind) => wr' = wr

\* The cursor returned has been advanced once, by the bytes packed in the one
\* packet built for the command, or not at all if none was built.
C30_ReturnedCursor ==
    CursorReturned =>
        /\ wr'.rpcs <= 1
        /\ wr'.pos = IF wr'.req = <<>> THEN 0 ELSE wr'.req[1].len
        /\ wr'.req = <<>> <=> rpc'.ctx # "cmd_rpc"
        /\ rpc'.ctx = "cmd_rpc" => wr'.pos = Min(wr'.len, wr'.capacity)

\* C30: the reply to an Rpc command sent with Some(cursor) carries the cursor
\* advanced by exactly the trailing bytes packed into that RPC's packet,
\* once per rpc_call, whatever the number of attempts and resends and whether
\* the RPC succeeds or fails; the cursor is not touched for a command sent
\* without one.
C30_CursorAdvancedOnce ==
    [][C30_AdvancedAtEntry /\ C30_ReturnedCursor]_vars

\* set_ipcc_key_lookup_value has failed after its request was sent four
\* times over two attempts, and the cursor is at the end of its two bytes.
C30_Witness ==
    /\ obs.facade # <<>>
    /\ obs.facade[1].op.name = "set_ipcc_key_lookup_value"
    /\ ~obs.facade[1].response.ok
    /\ obs.sends >= 4
    /\ rpc.attempt = 2
    /\ wr.len = 2
    /\ wr.pos = 2
    /\ wr.rpcs = 1

(***************************************************************************)
(* Busy backoff, results of rpc_call and late replies.                     *)
(***************************************************************************)

\* The sleep taken by a step that received a matching Busy.
BackoffSlept == clock' - clock

\* The interval of the attempt's policy after j Busy replies were answered
\* follows the doubling: it restarts at INITIAL_INTERVAL with each attempt.
C31_IntervalDoubles ==
    /\ BusyStep => rpc'.busy_sp_backoff = Min(2 * rpc.busy_sp_backoff, MAX_INTERVAL)
    /\ (pc = "rpc_select" /\ rpc'.attempt # rpc.attempt) =>
          rpc'.busy_sp_backoff = INITIAL_INTERVAL

\* C31 as stated: the sleep before the resend that follows the j-th
\* consecutive Busy of an attempt is min(20 * 2^(j-1), 1000) ms, the current
\* interval of the attempt's policy, and lies within [20 ms, 1000 ms]; the
\* interval restarts at 20 ms in each new attempt.
C31_AsStated ==
    [][/\ C31_IntervalDoubles
       /\ BusyStep =>
            /\ BackoffSlept = rpc.busy_sp_backoff
            /\ BackoffSlept >= INITIAL_INTERVAL
            /\ BackoffSlept <= MAX_INTERVAL]_vars

\* C32 as stated: set_ipcc_key_lookup_value called with no more than
\* MIN_TRAILING_DATA_LEN bytes never fails its assertion that the cursor the
\* reactor returned is empty, whatever the reactor did with the command
\* (an RPC of any outcome, or the no-SP-discovered answer of the drain loop of
\* initial discovery).
C32_AsStated ==
    (/\ obs.facade # <<>>
     /\ obs.facade[1].op = Op("set_ipcc_key_lookup_value", "")
     /\ wr.len <= wr.capacity)
        => obs.facade[1].result # FPanic

\* Steps that end rpc_call with an error of the SP or of the transport.
SpErrorStep == pc = "rpc_select" /\ rpc' # rpc /\ obs'.ended = "sp_error"
SendFailedStep ==
    rpc.result = <<>> /\ rpc'.result = <<Err(CommErr("SendTo", "", 0))>>

\* A matching Error that is not Busy is the call's result, from the attempt it
\* arrived in, with nothing sent by the step that took it.
C33_SpErrorReturned ==
    SpErrorStep =>
        /\ rpc'.result # <<>>
        /\ ~rpc'.result[1].ok
        /\ rpc'.result[1].err.tag = "SpError"
        /\ rpc'.result[1].err.arg # "Busy"
        /\ rpc'.attempt = rpc.attempt
        /\ rpc'.id = rpc.id
        /\ obs'.sends = obs.sends
        /\ pc' # "rpc_select"

\* A failed send is the call's result, from the attempt that tried to send.
C33_SendErrorReturned ==
    SendFailedStep =>
        /\ pc' # "rpc_select"
        /\ pc = "rpc_select" =>
              /\ obs'.sends = obs.sends
              /\ rpc'.id = rpc.id
              /\ rpc'.attempt \in {rpc.attempt, rpc.attempt + 1}
              /\ rpc'.attempt <= rpc.max_attempts

\* A call that has returned sends nothing: a packet is counted only by a step
\* that leaves the call running, and a returned call is out of the select!.
C33_NoSendAfterReturn ==
    /\ obs'.sends > obs.sends => rpc'.result = <<>> /\ pc' = "rpc_select"
    /\ (rpc.result # <<>> /\ rpc'.id = rpc.id) => UNCHANGED <<rpc, message_id>>

\* C33: a matching-id SpResponse::Error other than Busy, and a transport
\* failure of send, each end rpc_call at once with that error: no further
\* attempt is made and no further packet is sent for that RPC, even when
\* attempts remain.
C33_ErrorsEndCall ==
    /\ [](Returned => pc # "rpc_select")
    /\ [][C33_SpErrorReturned /\ C33_SendErrorReturned /\ C33_NoSendAfterReturn]_vars

\* The SP's error arrived in the first of three attempts, after one Busy, and
\* is the result of the call: two packets were sent.
C33_Witness ==
    /\ ReturnedErr("SpError")
    /\ rpc.result[1].err.arg = "RequestUnsupportedForSp"
    /\ rpc.attempt = 1
    /\ rpc.max_attempts = 3
    /\ obs.sends = 2
    /\ obs.busy = 1
    /\ obs.ended = "sp_error"

\* A step in which rpc_call returns, and one in which it returns although the
\* select! took no SpResponse.
ReturnStep == rpc.result = <<>> /\ rpc'.result # <<>>
ReturnWithoutSpResponse == ReturnStep /\ ~SpResponseStep
ExhaustedResult == <<Err(CommErr("ExhaustedNumAttempts", "", cfg.max_attempts_per_rpc))>>

\* Every transmission is the first of an attempt or the resend that follows a
\* Busy: a running call has sent once per attempt begun and once per Busy.
C34_SendsCounted ==
    (pc = "rpc_select" /\ ~Returned) =>
        /\ obs.sends = rpc.attempt + obs.busy
        /\ rpc.attempt >= 1
        /\ rpc.attempt <= rpc.max_attempts

\* ExhaustedNumAttempts is returned from the last attempt, each attempt
\* having sent once: max_attempts transmissions if no Busy was received.
C34_ExhaustedAfterAllAttempts ==
    ReturnedErr("ExhaustedNumAttempts") =>
        /\ rpc.attempt = rpc.max_attempts
        /\ obs.sends = rpc.max_attempts + obs.busy
        /\ obs.ended \in {"timeout", "mismatch"}

\* An attempt that has received no SpResponse is ended by the timer only, a
\* full per_attempt_timeout after its one transmission.
C34_FullTimeout ==
    (pc = "rpc_select" /\ obs.att_resp = 0 /\ rpc' # rpc /\ ~SpResponseStep) =>
        /\ TimerStep
        /\ clock >= obs.att_first_sent + cfg.per_attempt_timeout
        /\ AttemptReturnedNone \/ rpc'.result = <<Err(CommErr("SendTo", "", 0))>>

\* C34 as amended: if no SpResponse at all arrives for an RPC and no send
\* fails, rpc_call transmits the request exactly max_attempts times (one per
\* attempt, each followed by a full per-attempt timeout) and then fails with
\* exhausted-attempts; a send that fails ends the call with the transport
\* error instead; it never transmits more than max_attempts times unless
\* Busy replies are received.
C34_SilentSpExhausts ==
    /\ [](C34_SendsCounted /\ C34_ExhaustedAfterAllAttempts)
    /\ [][/\ C34_FullTimeout
          /\ ReturnWithoutSpResponse =>
                /\ rpc'.result \in {ExhaustedResult, <<Err(CommErr("SendTo", "", 0))>>}
                /\ rpc'.result = ExhaustedResult => TimerStep]_vars

\* C34 as stated: a call that returns without an SpResponse having been
\* taken fails with exhausted-attempts, after max_attempts transmissions if
\* no Busy was received.
C34_AsStated ==
    [][ReturnWithoutSpResponse =>
          /\ rpc'.result = ExhaustedResult
          /\ obs'.busy = 0 => obs'.sends = rpc'.max_attempts]_vars

\* Three attempts each timed out with nothing but sideband messages received:
\* three transmissions, then ExhaustedNumAttempts.
C34_Witness ==
    /\ ReturnedErr("ExhaustedNumAttempts")
    /\ rpc.max_attempts = 3
    /\ rpc.attempt = 3
    /\ obs.sends = 3
    /\ obs.busy = 0
    /\ obs.att_resp = 0
    /\ obs.att_oob = MaxOob
    /\ obs.ended = "timeout"
    /\ clock >= 3 * cfg.per_attempt_timeout

\* A matching Busy keeps the call in its attempt: the task sleeps for a
\* backoff drawn around the policy's interval, sends the request again and
\* resets the timer to a full per_attempt_timeout from that send, unless the
\* send fails.
C35_BusyResends ==
    BusyStep =>
        /\ rpc'.attempt = rpc.attempt
        /\ rpc'.id = rpc.id
        /\ rpc'.result # ExhaustedResult
        /\ BackoffSlept > 0
        /\ 2 * BackoffSlept >= rpc.busy_sp_backoff
        /\ 2 * BackoffSlept <= 3 * rpc.busy_sp_backoff
        /\ \/ /\ rpc'.result = <<>>
              /\ pc' = "rpc_select"
              /\ obs'.sends = obs.sends + 1
              /\ rpc'.deadline = clock' + cfg.per_attempt_timeout
              /\ clock' < rpc'.deadline
           \/ rpc'.result = <<Err(CommErr("SendTo", "", 0))>>

\* An attempt is consumed, and ExhaustedNumAttempts returned, only by a step
\* in which a transmission was not answered by a matching Busy in time: the
\* timer fired at or after the deadline, or an SpResponse with another id
\* arrived.
C35_ExhaustedNotByBusy ==
    /\ (pc = "rpc_select" /\ rpc'.attempt # rpc.attempt) => ~BusyStep
    /\ (ReturnStep /\ rpc'.result = ExhaustedResult) =>
          /\ ~BusyStep
          /\ (TimerStep /\ clock >= rpc.deadline) \/ MismatchStep

LateReplyStep == pc = "main" /\ obs'.ended = "ignored" /\ obs' # obs

\* The main loop drops the SpResponse: the reactor's fields, the command
\* channel and the waiting caller are as they were, nothing is sent and
\* nothing is delivered.
C36_Discarded ==
    LateReplyStep =>
        /\ UNCHANGED <<message_id, most_recent_host_phase2_request,
                       serial_console_tx, serial_console_connection_key,
                       sp_addr_tx, sp_addr, cmds_rx, caller, calls, pc, cfg>>
        /\ obs'.sends = 0
        /\ obs'.ids = {}
        /\ obs'.facade = <<>>
        /\ rpc' = NoRpc

\* A successful reply reaches a caller only from inside an RPC's window, in
\* the step that takes a matching SpResponse.
C36_RepliesFromWindowOnly ==
    (/\ obs'.facade # <<>>
     /\ obs'.facade # obs.facade
     /\ obs'.facade[1].response.ok) =>
        /\ pc = "rpc_select"
        /\ obs'.ended = "reply"
        /\ rpc'.result = <<obs'.facade[1].response>>
        /\ rpc'.id = rpc.id

\* C36: an SpResponse received by the main loop outside any RPC window is
\* discarded with no effect: message id, host-phase-2 slot, console sender,
\* connection key and published address are unchanged, no packet is sent,
\* and it is never delivered as the reply of a later RPC.
C36_LateReplyDiscarded ==
    [][C36_Discarded /\ C36_RepliesFromWindowOnly]_vars

\* A late reply has just been dropped between two RPCs: one RPC was made, six
\* commands wait in the channel, and the address published is still the SP's.
C36_Witness ==
    /\ pc = "main"
    /\ obs.ended = "ignored"
    /\ message_id = <<0, 2>>
    /\ Len(cmds_rx) = CMDS_CHANNEL_DEPTH - 2
    /\ caller.pc = "waiting"
    /\ sp_addr = <<"addr1">>

(***************************************************************************)
(* Properties of the console stream, stated for SpecStream.                *)
(***************************************************************************)
\* A step in which the attachment stays: the sender held before and after is
\* that of the same serial_console_attach.
SameAttachment ==
    /\ serial_console_tx # <<>>
    /\ serial_console_tx' # <<>>
    /\ serial_console_connection_key' = serial_console_connection_key
RecvStep == obs'.rcv # <<>> /\ obs' # obs
ConsoleArrives == obs'.sc # <<>> /\ obs' # obs

\* The channel of an attachment changes in two ways only: a SerialConsole
\* message that has just arrived is put at its tail, or recv takes its head.
C37_QueueSteps ==
    SameAttachment =>
        \/ serial_console_tx'[1].queue = serial_console_tx[1].queue
        \/ /\ obs'.sc # <<>>
           /\ obs'.fwd = "sent"
           /\ serial_console_tx'[1].queue =
                 Append(serial_console_tx[1].queue, obs'.sc[1])
        \/ /\ serial_console_tx[1].queue # <<>>
           /\ obs'.rcv = <<Head(serial_console_tx[1].queue)>>
           /\ serial_console_tx'[1].queue = Tail(serial_console_tx[1].queue)

\* recv returns the oldest packet queued and removes it; the reactor is
\* not touched.
C37_RecvTakesHead ==
    RecvStep =>
        /\ SameAttachment
        /\ serial_console_tx[1].queue # <<>>
        /\ obs'.rcv = <<Head(serial_console_tx[1].queue)>>
        /\ serial_console_tx'[1].queue = Tail(serial_console_tx[1].queue)
        /\ UNCHANGED <<pc, rpc, message_id, cmds_rx, caller,
                       most_recent_host_phase2_request>>

\* A SerialConsole message that arrives while an open channel is attached,
\* in the main loop or inside an attempt, goes to the tail of the channel, or
\* is dropped if the channel is full; the packets queued before it stay.
C37_ArrivalQueuedAtTail ==
    (ConsoleArrives /\ Attached /\ ~serial_console_tx[1].closed) =>
        /\ SameAttachment
        /\ IF Len(serial_console_tx[1].queue) >= SERIAL_CONSOLE_CHANNEL_DEPTH
           THEN serial_console_tx' = serial_console_tx
           ELSE serial_console_tx'[1].queue =
                   Append(serial_console_tx[1].queue, obs'.sc[1])
        /\ pc = "rpc_select" => UNCHANGED <<rpc, pc>>

\* C37: the packets a receiver obtains from AttachedSerialConsoleRecv::recv
\* are a subsequence, in arrival order, of the SerialConsoleData messages the
\* reactor received while that attachment's sender was installed: the
\* channel is only ever appended to at its tail by an arriving message and
\* emptied from its head by recv, also when the messages arrive interleaved
\* with an in-flight RPC.
C37_InOrderSubsequence ==
    [][C37_QueueSteps /\ C37_RecvTakesHead /\ C37_ArrivalQueuedAtTail]_vars

\* Inside an attempt of an RPC, two SerialConsole messages have arrived; recv
\* has returned "a" and "b", which arrived after it, is still queued.
C37_Witness ==
    /\ pc = "rpc_select"
    /\ obs.att_oob = 2
    /\ obs.sends = 1
    /\ obs.rcv = <<"a">>
    /\ Attached
    /\ serial_console_tx[1].queue = <<"b">>
    /\ serial_console_connection_key = 1

(***************************************************************************)
(* C38: the number of RPCs of a paginated query, stated for SpecTlvFair.   *)
(***************************************************************************)
\* The total declared by the first page, once it was accepted.
DeclaredTotal == tlv.page0_total[1]

\* The query has issued no more than max(1, T) RPCs, T the total its first
\* page declared, and T is within the limit; before the first page is
\* accepted it has issued at most one.
C38_RpcsWithinTotal ==
    /\ tlv.page0_total = <<>> => tlv.rpcs <= 1
    /\ tlv.page0_total # <<>> =>
          /\ tlv.rpcs <= Max(1, DeclaredTotal)
          /\ DeclaredTotal <= TLV_RPC_TOTAL_ITEMS_DOS_LIMIT
          /\ tlv.pc = "loop" /\ DeclaredTotal > 0 => tlv.rpcs <= Len(tlv.entries)

\* A page that does not fail the query adds at least one item, unless the
\* declared total is 0, in which case the loop is left.
C38_PageAddsItem ==
    (tlv.pc = "decode" /\ tlv'.pc = "loop") =>
        \/ Len(tlv'.entries) > tlv.offset
        \/ tlv.total = 0 /\ ~LoopContinues(Len(tlv'.entries), tlv'.page0_total)

\* C38: every paginated query terminates, provided each RPC returns: each
\* page that does not fail the query adds at least one item, so a query
\* whose first page declares total T issues at most max(1, T) RPCs (hence at
\* most 1024) before returning Ok or Err, whatever pages the SP sends.
\* Termination is followed for totals below MaxRpcs.
C38_QueryTerminates ==
    /\ [](C38_RpcsWithinTotal)
    /\ [][C38_PageAddsItem]_vars
    /\ <>(tlv.page0_total # <<>> \/ tlv.pc = "done")
    /\ (tlv.page0_total # <<>> /\ DeclaredTotal < MaxRpcs) ~> (tlv.pc = "done")

\* A query of MaxTotal items has returned them after MaxTotal RPCs, one item
\* per page.
C38_Witness ==
    /\ tlv.pc = "done"
    /\ tlv.result = <<TlvOk(tlv.entries)>>
    /\ tlv.page0_total = <<MaxTotal>>
    /\ Len(tlv.entries) = MaxTotal
    /\ tlv.rpcs = MaxTotal

(***************************************************************************)
(* C39: the outcomes of reset_component_trigger, stated for SpecRpc.       *)
(***************************************************************************)
\* What reset_component_trigger(SP_ITSELF) returned: Ok exactly for the
\* error ResetComponentTriggerWithoutPrepare, BadResponseType (naming the
\* variant received) for every reply that is not an error, the ack included,
\* and any other error as it is.
C39_SpItself ==
    \A i \in 1 .. Len(obs.facade) :
        LET f == obs.facade[i]
        IN  f.op = Op("reset_component_trigger", "SP_ITSELF") =>
                /\ f.result.ok <=> f.response = WithoutPrepare
                /\ f.response.ok =>
                      f.result = FErr(CommErr("BadResponseType", f.response.resp.tag, 0))
                /\ (~f.response.ok /\ f.response # WithoutPrepare) =>
                      f.result = FErr(f.response.err)

\* What it returned for another component: Ok exactly for the ack.
C39_OtherComponent ==
    \A i \in 1 .. Len(obs.facade) :
        LET f == obs.facade[i]
        IN  (f.op.name = "reset_component_trigger" /\ f.op.component # "SP_ITSELF") =>
                /\ f.result.ok <=>
                      (f.response.ok /\ f.response.resp.tag = "ResetComponentTriggerAck")
                /\ (f.response.ok /\ f.response.resp.tag # "ResetComponentTriggerAck") =>
                      f.result = FErr(CommErr("BadResponseType", f.response.resp.tag, 0))
                /\ ~f.response.ok => f.result = FErr(f.response.err)

\* C39: reset_component_trigger(SP_ITSELF) returns Ok only when the SP
\* answered with the error ResetComponentTriggerWithoutPrepare: any
\* non-error reply to the trigger, the reset-trigger ack included, is
\* returned as a bad-response-type error, while for any other component the
\* ack is success.
C39_TriggerOutcomes == C39_SpItself /\ C39_OtherComponent

\* The SP acknowledged the trigger of its own reset: the caller gets
\* BadResponseType.
C39_Witness ==
    /\ obs.facade # <<>>
    /\ obs.facade[1].op = Op("reset_component_trigger", "SP_ITSELF")
    /\ obs.facade[1].response.ok
    /\ obs.facade[1].response.resp = Resp("ResetComponentTriggerAck", "")
    /\ obs.facade[1].result =
          FErr(CommErr("BadResponseType", "ResetComponentTriggerAck", 0))

(***************************************************************************)
(* C40: the sender of a dropped receiver, stated for SpecConsole.          *)
(***************************************************************************)
\* The reactor holds a sender whose receiver was dropped.
DroppedSender == Attached /\ serial_console_tx[1].closed

\* Dropping the receiver changes nothing in the reactor: the sender stays.
C40_DropLeavesSender ==
    (Attached /\ ~serial_console_tx[1].closed /\ serial_console_tx' # <<>>
        /\ serial_console_tx'[1].closed) =>
        /\ serial_console_tx'[1].queue = serial_console_tx[1].queue
        /\ UNCHANGED <<pc, message_id, serial_console_connection_key, cmds_rx,
                       caller, rpc, obs>>

\* Such a sender stays as it is until a forward attempt finds the channel
\* closed, or a detach that applies (no key, or the current key) returns Ok,
\* which it does on the SP's detach ack only.
C40_SenderHeld ==
    DroppedSender =>
        \/ serial_console_tx' = serial_console_tx
        \/ /\ serial_console_tx' = <<>>
           /\ obs'.fwd = "closed"
           /\ obs'.sc # <<>>
        \/ /\ serial_console_tx' = <<>>
           /\ CommandReplied("SerialConsoleDetach")
           /\ caller.op.key \in {<<>>, <<serial_console_connection_key>>}
           /\ Reply.ok
           /\ RpcReturnedAck("SerialConsoleDetachAck")

\* While it is held, an attach is answered SerialConsoleAlreadyAttached
\* without an rpc_call: no packet, no new message id, no new key.
C40_AttachKeepsFailing ==
    (CommandTaken("SerialConsoleAttach") /\ DroppedSender) =>
        /\ caller' = NoCaller
        /\ Reply = FErr(CommErr("SpError", "SerialConsoleAlreadyAttached", 0))
        /\ NoPacketNoChange
        /\ calls' = calls

\* C40: after the caller dropped the serial console receiver, and as long
\* as no SerialConsole message arrives, the reactor still holds the sender:
\* a new SerialConsoleAttach keeps failing with SerialConsoleAlreadyAttached,
\* without any packet sent, until either a forward attempt observes the
\* closed channel or a detach with no key or the current key succeeds.
C40_DroppedReceiverKeepsSender ==
    [][C40_DropLeavesSender /\ C40_SenderHeld /\ C40_AttachKeepsFailing]_vars

\* The receiver of the latest attachment was dropped, one RPC has been made
\* without the sender being cleared, and an attach has just been refused.
C40_Witness ==
    /\ DroppedSender
    /\ pc = "main"
    /\ serial_console_connection_key = MaxKey
    /\ calls = 1
    /\ message_id = <<0, 2>>
    /\ obs.facade # <<>>
    /\ obs.facade[1].op = AttachCommand
    /\ obs.facade[1].result =
          FErr(CommErr("SpError", "SerialConsoleAlreadyAttached", 0))
    /\ obs.sends = 0
====
